---- MODULE Spec2Model ----
(***************************************************************************)
(* A model of go-foundations/workerpool: the WorkerPool orchestrator       *)
(* (NewWithConfig, AddJob, AddJobs, Run, Stop), its four built-in          *)
(* distribution strategies, the per-job executor processJob, the           *)
(* work-stealing deque and the priority queue.                             *)
(*                                                                         *)
(* Goroutines are processes; one action is one atomic step of a goroutine. *)
(* Channel operations and mutex-protected critical sections are atomic.    *)
(* Steal only holds the read lock, so its accesses to d.top are separate   *)
(* steps (load, then store) that interleave with other thieves.            *)
(* time.Sleep is a no-op; wall-clock time only appears as the logical      *)
(* clock `now` that stamps Job.Created and as the Timeout action that      *)
(* expires the run scope's deadline.                                       *)
(***************************************************************************)
EXTENDS Integers, Sequences, FiniteSets, Bags, TLC

----------------------------------------------------------------------------
(* Bounds of the model *)

\* Most jobs a caller loads into the pool in the small-batch specifications.
MaxJobs == 2
\* Largest num_workers a caller configures.
MaxWorkers == 3
\* Largest max_retries a caller configures.
MaxRetriesCfg == 1
\* Most jobs the owner of a free-standing deque pushes.
MaxPush == 3
\* Thief threads on a free-standing deque.
MaxThieves == 2
\* Largest initialSize a caller passes to NewWorkStealingDeque.
MaxDequeSize == 2
\* Most AddJob/AddJobs calls of a program that only loads jobs.
MaxAddCalls == 4
\* Longest batch such a program passes to AddJobs.
MaxBatch == 3
\* Most Run calls on one pool.
MaxRuns == 2
\* Jobs of a run that overflows the results channel (MinBufferSize + 1).
OverflowJobs == 11
\* Largest num_workers of the overflowing run.
MaxFairWorkers == 1
\* Most jobs and largest num_workers of the runs that Stop may cancel.
MaxCancelJobs == 2
MaxCancelWorkers == 2
\* The Configs given to NewWithConfig: values from -MaxBelow up to these.
MaxBelow == 1
MaxGivenWorkers == 2
MaxGivenBuffer == 11
MaxGivenTimeout == 1
\* The prioritised batches: most jobs, largest priority, latest Created.
MaxPrioJobs == 3
MaxPriority == 1
MaxCreated == 2
\* The heap client: most items in the queue, most Push and Pop calls.
MaxHeapSize == 4
MaxHeapOps == 6
\* The round-robin runs: most jobs, largest num_workers.
MaxRRJobs == 3
MaxRRWorkers == 2
\* Largest worker_timeout of the runs with a per-attempt timeout.
MaxWorkerTimeout == 1
\* Most Stop calls on a pool without a live run scope.
MaxStops == 2
\* Most goroutines that call AddJob concurrently.
MaxAgents == 5

(* Program constants *)

\* NewWithConfig: BufferSize <= 0 becomes 100.
DefaultBufferSize == 100
\* NewWithConfig: BufferSize < 10 becomes 10.
MinBufferSize == 10
\* NewWithConfig: Timeout <= 0 becomes 5 * time.Minute (in seconds).
DefaultTimeout == 300
\* NewWorkStealingDeque: initialSize <= 0 becomes 64.
DefaultDequeSize == 64

\* DistributionStrategy (iota constants).
RoundRobin == 0
Chunked == 1
WorkStealing == 2
PriorityBased == 3

VARIABLES
    config,          \* wp.config after NewWithConfig's clamping
    given,           \* history: the Config the caller passed to NewWithConfig
    processor,       \* wp.processor # nil
    jobs,            \* wp.jobs: the elements of the slice (Go index i is jobs[i+1])
    jobsCap,         \* cap(wp.jobs)
    now,             \* logical time.Now() of the add calls
    nextId,          \* the caller's next fresh job id
    added,           \* history: the ids of the jobs passed to AddJob/AddJobs, in call order
    metrics,         \* wp.metrics: TotalJobs, ProcessedJobs, FailedJobs
    results,         \* buffered content of the channel wp.results
    resultsClosed,   \* number of completed close(wp.results)
    emitted,         \* history: bag of the job ids of the Results sent into wp.results
    ctx,             \* wp.ctx: "nil", "active", "canceled", "deadline"
    cancel,          \* wp.cancel # nil
    cancelSeen,      \* history: the run scope was cancelled before Run's last check of it
    cancelledInRun,  \* history: the run scope was cancelled before Run returned
    stops,           \* history: number of Stop calls made
    pc,              \* where the goroutine calling Run is
    dispatched,      \* runRoundRobin: loop index i of the dispatch loop
    collected,       \* Run: the local slice `results`
    ret,             \* what Run returned: [results, err]
    runs,            \* number of Run calls that passed the pre-flight checks
    workers,         \* the worker goroutines of the run, by id
    panicked,        \* the process died of a runtime panic
    invoked,         \* history: bag of processor invocations per job id
    inbox,           \* runRoundRobin: the buffers of jobChannels[i]
    inboxClosed,     \* runRoundRobin: jobChannels are closed
    deques,          \* runWorkStealing: deques[i]
    pq,              \* runPriorityBased: priorityQueue.items
    workQueue,       \* runPriorityBased: the buffer of workQueue
    workQueueClosed, \* runPriorityBased: workQueue is closed
    dispatcher,      \* runPriorityBased: the dispatcher goroutine: "none", "run", "done"
    owner,           \* deque client: what the owner thread did (pushes, pops)
    thieves,         \* deque client: the thief threads
    delivered,       \* deque client: bag of the job ids Pop and Steal returned
    popped,          \* heap client: the Push and Pop calls made, what the last Pop returned
    getter,          \* the goroutine calling GetMetrics: where it is, what it has read
    caller,          \* deque client: the last call of a sequential caller and what an
                     \* unbounded deque holds; the Pop and Steal calls of a race
    adaptive         \* the AdaptiveStrategy: its metrics, the clock, its last Execute

poolVars == <<config, given, processor, jobs, jobsCap, now, nextId, added>>
chanVars == <<results, resultsClosed, emitted>>
ctxVars == <<ctx, cancel, cancelSeen, cancelledInRun, stops>>
runnerVars == <<pc, dispatched, collected, ret, runs, metrics>>
rrVars == <<inbox, inboxClosed>>
prioVars == <<pq, workQueue, workQueueClosed, dispatcher>>
clientVars == <<owner, thieves, delivered, popped, getter, caller, adaptive>>

vars == <<poolVars, chanVars, ctxVars, runnerVars, workers, panicked, invoked,
          rrVars, deques, prioVars, clientVars>>

----------------------------------------------------------------------------
(* Data model *)

max(a, b) == IF a > b THEN a ELSE b

\* Job[T]{} : the zero value (ID "", zero Created).
ZeroJob == [id |-> 0, k |-> 0, priority |-> 0, created |-> 0]

\* A caller's job: id, priority, created (0 = unset). k is the payload the
\* processor reads: it fails the first k invocations on the job.
Job(id, k, priority, created) ==
    [id |-> id, k |-> k, priority |-> priority, created |-> created]

Result(job, data, err, worker) ==
    [id |-> job.id, data |-> data, err |-> err, worker |-> worker]

NoErr == "nil"
ErrNoProcessor == "no processor configured"
ErrNoJobs == "no jobs to process"

\* ctx.Done() is closed
Done(c) == c \in {"canceled", "deadline"}
\* ctx.Err()
CtxErr(c) == IF c = "canceled" THEN "context canceled"
             ELSE IF c = "deadline" THEN "context deadline exceeded" ELSE NoErr

None == [w \in {} |-> 0]

\* A worker goroutine. pc: "none" (never started), "recv", "scope" (holding a
\* received job, waiting for wp.ctx), "next", "top", "steal",
\* "stealLoad", "stealStore", "scan", "attempt", "inflight", "send", "done".
\* A context.Context as the processor sees it: whether cancelling the run scope
\* cancels it, and the timeout of its own after which it is cancelled (0: none).
Scope(run, timeout) == [run |-> run, timeout |-> timeout]
NoScope == Scope(FALSE, 0)

\* job/attempt/data/err/scope are processJob's locals and the scope it handed
\* to the processor; [lo, hi) is the slice a chunked
\* worker was given and idx its position in it (idx is also the deque a
\* work-stealing worker scans);
\* att/victim/tmp the steal loop's attempts, its victim and the loaded d.top.
Worker(p) == [pc |-> p, job |-> ZeroJob, attempt |-> 0, data |-> 0, err |-> FALSE,
              scope |-> NoScope,
              lo |-> 0, idx |-> 0, hi |-> 0, att |-> 0, victim |-> 0, tmp |-> 0]

----------------------------------------------------------------------------
(* Construction *)

\* NewWithConfig with the first BufferSize test written `< 0`.
NewWithConfigStrict(c) ==
    LET nw == IF c.NumWorkers <= 0 THEN 1 ELSE c.NumWorkers
        b1 == IF c.BufferSize < 0 THEN DefaultBufferSize ELSE c.BufferSize
        to == IF c.Timeout <= 0 THEN DefaultTimeout ELSE c.Timeout
        b2 == IF b1 < MinBufferSize THEN MinBufferSize ELSE b1
    IN  [c EXCEPT !.NumWorkers = nw, !.BufferSize = b2, !.Timeout = to]

\* NewWithConfig: the clamping of the caller's Config.
NewWithConfig(c) ==
    LET nw == IF c.NumWorkers <= 0 THEN 1 ELSE c.NumWorkers
        b1 == IF c.BufferSize <= 0 THEN DefaultBufferSize ELSE c.BufferSize
        to == IF c.Timeout <= 0 THEN DefaultTimeout ELSE c.Timeout
        b2 == IF b1 < MinBufferSize THEN MinBufferSize ELSE b1
    IN  [c EXCEPT !.NumWorkers = nw, !.BufferSize = b2, !.Timeout = to]

\* A Config literal that sets these four fields and leaves Timeout and
\* WorkerTimeout at their zero values.  Durations are in seconds.
Config(nw, bs, st, mr) ==
    [NumWorkers |-> nw, BufferSize |-> bs, Strategy |-> st, MaxRetries |-> mr,
     Timeout |-> 0, WorkerTimeout |-> 0]

\* &Metrics{}
ZeroMetrics == [TotalJobs |-> 0, ProcessedJobs |-> 0, FailedJobs |-> 0]

\* The goroutine calling GetMetrics: where it is ("idle", "locked" holding
\* metrics.mu, "total" and "processed" after the load of that field,
\* "returned"), the record as it was when it took metrics.mu, and the fields
\* it has loaded so far.
Getter(p, at, snap) == [pc |-> p, at |-> at, snap |-> snap]

\* A caller of the priority queue that has called nothing yet: the Push and
\* Pop calls made, what the last Pop returned, and the Created of the job
\* popped last at each priority before that.
HeapClient ==
    [pushes |-> 0, pops |-> 0, job |-> ZeroJob, ok |-> FALSE,
     prev |-> [p \in 0..MaxPriority |-> 0]]

\* The pool NewWithConfig(c) returns.
\* A caller of a deque that has made no call yet. op, job, ok: its last call
\* and what it returned; ref, want: the jobs an unbounded deque holds after
\* the same calls, and what it returned; cap: len(buffer) before the call;
\* pops, steals, stolen, stolenOk: the Pop and the Steal of a race on the last
\* job and what Steal returns.
NoCall ==
    [op |-> "none", job |-> ZeroJob, ok |-> FALSE, ref |-> << >>, want |-> ZeroJob,
     cap |-> 0, pops |-> 0, steals |-> 0, stolen |-> ZeroJob, stolenOk |-> FALSE]

\* Execute is called by MaxAdaptiveCallers goroutines.
MaxAdaptiveCallers == 2

\* A strategy object is known by what its Name() returns. The package's four
\* strategies, and a caller's own strategy that names itself "round_robin".
RoundRobinStrategy == "Round Robin"
ChunkedStrategy == "Chunked"
WorkStealingStrategy == "Work Stealing"
PriorityBasedStrategy == "Priority Based"
CustomStrategy == "round_robin"

\* The names NewAdaptiveStrategy registers the four strategies under.
Registered == {"round_robin", "chunked", "work_stealing", "priority_based"}

\* as.strategies after NewAdaptiveStrategy's four RegisterStrategy calls.
DefaultStrategies ==
    [k \in Registered |->
        CASE k = "round_robin" -> RoundRobinStrategy
          [] k = "chunked" -> ChunkedStrategy
          [] k = "work_stealing" -> WorkStealingStrategy
          [] k = "priority_based" -> PriorityBasedStrategy]

\* switchThreshold: 0.2, in hundredths.
SwitchThresholdPct == 20

\* A goroutine that is not inside Execute. pc: "idle", "best" (between
\* shouldSwitchStrategy and findBestStrategy), "start" (selectStrategy has
\* returned), "run" (inside the selected strategy's Execute), "record"
\* (before updateMetrics); workloadType, strategy, jobCount, startTime,
\* duration: Execute's locals.
NoExecute ==
    [pc |-> "idle", workloadType |-> "", strategy |-> "", jobCount |-> 0,
     startTime |-> 0, duration |-> 0]

\* NewAdaptiveStrategy(): the default strategies, an empty
\* strategyPerformance map, lastSwitch the zero time (0), the threshold.
\* clock: the time in seconds; executes: the Execute calls begun; calls: the
\* goroutines calling Execute.
NewAdaptiveStrategy ==
    [strategies |-> DefaultStrategies,
     strategyPerformance |-> [k \in {} |-> 0], lastSwitch |-> 0,
     switchThreshold |-> SwitchThresholdPct, clock |-> 1, executes |-> 0,
     calls |-> [c \in 1..MaxAdaptiveCallers |-> NoExecute]]

NewPool(c) ==
    /\ config = NewWithConfig(c)
    /\ given = c
    /\ processor = FALSE
    /\ jobs = << >>
    /\ jobsCap = 0
    /\ now = 1
    /\ nextId = 1
    /\ added = << >>
    /\ metrics = ZeroMetrics
    /\ results = << >>
    /\ resultsClosed = 0
    /\ emitted = EmptyBag
    /\ ctx = "nil"
    /\ cancel = FALSE
    /\ cancelSeen = FALSE
    /\ cancelledInRun = FALSE
    /\ stops = 0
    /\ pc = "idle"
    /\ dispatched = 0
    /\ collected = << >>
    /\ ret = [results |-> << >>, err |-> NoErr]
    /\ runs = 0
    /\ workers = None
    /\ panicked = FALSE
    /\ invoked = EmptyBag
    /\ inbox = None
    /\ inboxClosed = FALSE
    /\ pq = << >>
    /\ workQueue = << >>
    /\ workQueueClosed = FALSE
    /\ dispatcher = "none"
    /\ owner = [pushed |-> 0]
    /\ delivered = EmptyBag
    /\ popped = HeapClient
    /\ getter = Getter("idle", ZeroMetrics, ZeroMetrics)
    /\ caller = NoCall
    /\ adaptive = NewAdaptiveStrategy

\* A program that builds a pool: no free-standing deque, no deque client.
InitPool(c) ==
    /\ NewPool(c)
    /\ deques = None
    /\ thieves = None

----------------------------------------------------------------------------
(* Loading jobs *)

\* WithProcessor
WithProcessor ==
    /\ ~panicked
    /\ pc = "idle"
    /\ ~processor
    /\ processor' = TRUE
    /\ UNCHANGED <<config, given, jobs, jobsCap, now, nextId, added>>
    /\ UNCHANGED <<chanVars, ctxVars, runnerVars, workers, panicked, invoked,
                   rrVars, deques, prioVars, clientVars>>

\* Created = now, whatever the caller supplied.
StampAlways(job, t) == [job EXCEPT !.created = t]

\* Created.IsZero() => Created = now
Stamp(job, t) == IF job.created = 0 THEN [job EXCEPT !.created = t] ELSE job

\* AddJobs(batch): wp.jobs = make([]Job, len(batch)); copy; stamp; TotalJobs = len.
AddJobs(batch) ==
    /\ ~panicked
    /\ jobs' = [i \in 1..Len(batch) |-> Stamp(batch[i], now)]
    /\ jobsCap' = Len(batch)
    /\ metrics' = [metrics EXCEPT !.TotalJobs = Len(batch)]
    /\ now' = now + 1
    /\ nextId' = nextId + Len(batch)
    /\ added' = added \o [i \in 1..Len(batch) |-> batch[i].id]
    /\ UNCHANGED <<config, given, processor>>
    /\ UNCHANGED <<chanVars, ctxVars, pc, dispatched, collected, ret, runs, workers,
                   panicked, invoked, rrVars, deques, prioVars, clientVars>>

\* append(s, x): the capacity the runtime gives a slice that has to grow
\* (doubling, for the short slices modelled here).
AppendCap(len, cap) == IF len + 1 <= cap THEN cap ELSE IF cap = 0 THEN 1 ELSE 2 * cap

\* AddJob that appends to the list as it was at construction.
AddJobLost(job) ==
    /\ ~panicked
    /\ jobs' = <<Stamp(job, now)>>
    /\ jobsCap' = 1
    /\ metrics' = [metrics EXCEPT !.TotalJobs = 1]
    /\ now' = now + 1
    /\ nextId' = nextId + 1
    /\ added' = Append(added, job.id)
    /\ UNCHANGED <<config, given, processor>>
    /\ UNCHANGED <<chanVars, ctxVars, pc, dispatched, collected, ret, runs, workers,
                   panicked, invoked, rrVars, deques, prioVars, clientVars>>

\* AddJob(job), under wp.mu: stamp; wp.jobs = append(wp.jobs, job); TotalJobs = len.
AddJob(job) ==
    /\ ~panicked
    /\ jobs' = Append(jobs, Stamp(job, now))
    /\ jobsCap' = AppendCap(Len(jobs), jobsCap)
    /\ metrics' = [metrics EXCEPT !.TotalJobs = Len(jobs) + 1]
    /\ now' = now + 1
    /\ nextId' = nextId + 1
    /\ added' = Append(added, job.id)
    /\ UNCHANGED <<config, given, processor>>
    /\ UNCHANGED <<chanVars, ctxVars, pc, dispatched, collected, ret, runs, workers,
                   panicked, invoked, rrVars, deques, prioVars, clientVars>>

----------------------------------------------------------------------------
(* The run scope *)

\* Run's last check of the scope is behind it: the collection loop received the
\* channel's last Result (or Run is not collecting any more).
PastLastCheck == pc = "collect" /\ results = << >>

\* Stop on a pool whose run scope is live: cancel := wp.cancel under the read
\* lock; cancel().
Stop ==
    /\ ~panicked
    /\ cancel
    /\ ctx = "active"
    /\ ctx' = "canceled"
    /\ cancelledInRun' = TRUE
    /\ cancelSeen' = (cancelSeen \/ ~PastLastCheck)
    /\ stops' = stops + 1
    /\ UNCHANGED <<poolVars, chanVars, cancel, runnerVars, workers, panicked, invoked,
                   rrVars, deques, prioVars, clientVars>>

\* Stop without the test `cancel != nil`.
StopIdleUnchecked ==
    /\ ~panicked
    /\ ~(cancel /\ ctx = "active")
    /\ stops < MaxStops
    /\ stops' = stops + 1
    /\ panicked' = ~cancel
    /\ UNCHANGED <<poolVars, chanVars, ctx, cancel, cancelSeen, cancelledInRun,
                   runnerVars, workers, invoked, rrVars, deques, prioVars, clientVars>>

\* Stop on a pool without a live run scope: wp.cancel is nil (no Run yet, or
\* Run has cleaned up) and nothing is called, or cancel() is called on a
\* scope that is done already and changes nothing.
StopIdle ==
    /\ ~panicked
    /\ ~(cancel /\ ctx = "active")
    /\ stops < MaxStops
    /\ stops' = stops + 1
    /\ UNCHANGED <<poolVars, chanVars, ctx, cancel, cancelSeen, cancelledInRun,
                   runnerVars, workers, panicked, invoked, rrVars, deques, prioVars,
                   clientVars>>

\* context.WithTimeout(..., wp.config.Timeout): the deadline of the run scope passes.
Timeout ==
    /\ ~panicked
    /\ ctx = "active"
    /\ ctx' = "deadline"
    /\ cancelledInRun' = TRUE
    /\ cancelSeen' = (cancelSeen \/ ~PastLastCheck)
    /\ UNCHANGED stops
    /\ UNCHANGED <<poolVars, chanVars, cancel, runnerVars, workers, panicked, invoked,
                   rrVars, deques, prioVars, clientVars>>

----------------------------------------------------------------------------
(* Run *)

NumWorkers == config.NumWorkers
NumJobs == Len(jobs)
WorkerIds == 0..(NumWorkers - 1)

\* Run's switch with a default case that runs the chunked strategy.
StrategyOfChunked(st) ==
    IF st \in {RoundRobin, Chunked, WorkStealing, PriorityBased} THEN st ELSE Chunked

\* StrategyFactory.CreateStrategy: the strategy type created for a value,
\* named by its constant; the default case creates a RoundRobinStrategy.
CreateStrategy(st) ==
    CASE st = RoundRobin -> RoundRobin
      [] st = Chunked -> Chunked
      [] st = WorkStealing -> WorkStealing
      [] st = PriorityBased -> PriorityBased
      [] OTHER -> RoundRobin

\* Run's switch on wp.config.Strategy: unknown values run round-robin.
StrategyOf(st) ==
    IF st \in {RoundRobin, Chunked, WorkStealing, PriorityBased} THEN st ELSE RoundRobin

\* Run's pre-flight checks without the check for an empty job list.
PreflightNoJobsCheck == IF ~processor THEN ErrNoProcessor ELSE NoErr

\* Run's pre-flight checks: the error Run returns at once, or nil.
Preflight ==
    IF ~processor THEN ErrNoProcessor
    ELSE IF NumJobs = 0 THEN ErrNoJobs
    ELSE NoErr

\* Run, up to the strategy call: the pre-flight checks, the scope of the run.
\* A failed pre-flight check returns at once and leaves the pool as it was.
RunFrom(at) ==
    /\ ~panicked
    /\ pc = at
    /\ IF Preflight # NoErr
       THEN /\ ret' = [results |-> << >>, err |-> Preflight]
            /\ UNCHANGED <<ctxVars, pc, collected, runs, emitted>>
       ELSE /\ ctx' = "active"
            /\ cancel' = TRUE
            /\ cancelSeen' = FALSE
            /\ cancelledInRun' = FALSE
            /\ UNCHANGED stops
            /\ pc' = "strategy"
            /\ collected' = << >>
            /\ runs' = runs + 1
            /\ emitted' = EmptyBag
            /\ UNCHANGED ret
    /\ UNCHANGED <<poolVars, results, resultsClosed, dispatched, metrics, workers,
                   panicked, invoked, rrVars, deques, prioVars, clientVars>>

\* The first Run on the pool.
Run == RunFrom("idle")

\* Run again on the pool whose previous Run returned its results.
RunAgain ==
    /\ runs < MaxRuns
    /\ ret.err = NoErr
    /\ dispatcher # "run"
    /\ RunFrom("returned")

\* Run's error path: cancel(); wp.cancel = nil; wp.ctx = nil; return nil, err.
RunFail(e) ==
    /\ ctx' = "nil"
    /\ cancel' = FALSE
    /\ ret' = [results |-> << >>, err |-> e]
    /\ pc' = "returned"

\* wg.Wait(); close(wp.results); the strategy's check of the scope; Run's
\* `if err != nil`. The tail shared by the four run* methods.
AllWorkersExited == \A w \in DOMAIN workers : workers[w].pc \in {"none", "done"}

JoinAndClose ==
    /\ ~panicked
    /\ pc = "wait"
    /\ AllWorkersExited
    /\ IF resultsClosed > 0
       THEN /\ panicked' = TRUE      \* close of closed channel
            /\ UNCHANGED <<resultsClosed, ctxVars, pc, ret>>
       ELSE /\ resultsClosed' = resultsClosed + 1
            /\ UNCHANGED panicked
            /\ IF Done(ctx)
               THEN RunFail(CtxErr(ctx)) /\ UNCHANGED <<cancelSeen, cancelledInRun, stops>>
               ELSE pc' = "collect" /\ UNCHANGED <<ctxVars, ret>>
    /\ UNCHANGED <<poolVars, results, emitted, dispatched, collected, runs, metrics,
                   workers, invoked, rrVars, deques, prioVars, clientVars>>

\* A collection loop that never looks at the scope.
CollectSeesNothing(c) == FALSE

\* The collection loop's `select { case <-wp.ctx.Done(): ... default: }`.
CollectSees(c) == Done(c)

\* One iteration of `for result := range wp.results`: the check of the scope,
\* the append, the metrics.
Collect ==
    /\ ~panicked
    /\ pc = "collect"
    /\ results # << >>
    /\ results' = Tail(results)
    /\ IF CollectSees(ctx)
       THEN /\ ret' = [results |-> << >>, err |-> CtxErr(ctx)]
            /\ pc' = "returned"
            /\ UNCHANGED <<collected, metrics>>
       ELSE /\ collected' = Append(collected, Head(results))
            /\ metrics' = IF Head(results).err
                          THEN [metrics EXCEPT !.FailedJobs = @ + 1]
                          ELSE [metrics EXCEPT !.ProcessedJobs = @ + 1]
            /\ UNCHANGED <<ret, pc>>
    /\ UNCHANGED <<poolVars, resultsClosed, emitted, ctxVars, dispatched, runs,
                   workers, panicked, invoked, rrVars, deques, prioVars, clientVars>>

\* The range loop ends on the closed, drained channel: clean up the scope,
\* return results, nil.
RunReturn ==
    /\ ~panicked
    /\ pc = "collect"
    /\ results = << >>
    /\ resultsClosed > 0
    /\ ctx' = "nil"
    /\ cancel' = FALSE
    /\ ret' = [results |-> collected, err |-> NoErr]
    /\ pc' = "returned"
    /\ UNCHANGED <<poolVars, chanVars, cancelSeen, cancelledInRun, stops, dispatched,
                   collected, runs, metrics, workers, panicked, invoked, rrVars,
                   deques, prioVars, clientVars>>

----------------------------------------------------------------------------
(* processJob *)

\* The head of `for attempt := 0; attempt <= wp.config.MaxRetries; attempt++`.
RetryHead(attempt) == IF attempt <= config.MaxRetries THEN "attempt" ELSE "send"

\* Where a worker is after processJob returned: the head of its loop.
LoopHead ==
    CASE StrategyOf(config.Strategy) = Chunked -> "next"
      [] StrategyOf(config.Strategy) = WorkStealing -> "top"
      [] OTHER -> "recv"

\* processJob(id, job) is entered.
EnterProcessJob(wk, job) ==
    [wk EXCEPT !.pc = RetryHead(0), !.job = job, !.attempt = 0, !.data = 0, !.err = FALSE]

\* processJob returned.
LeaveProcessJob(wk) ==
    [wk EXCEPT !.pc = LoopHead, !.job = ZeroJob, !.attempt = 0, !.data = 0, !.err = FALSE,
               !.scope = NoScope]

\* wp.processor(ctx, job): the scope handed to the processor is wp.ctx itself,
\* read at the head of the attempt; config.WorkerTimeout is not consulted.
ProcessorScope == Scope(TRUE, 0)

\* The processor of the model: it fails the first job.k invocations on a job,
\* then returns the job's id as its data.
ProcessorFails(job) == CopiesIn(job.id, invoked) < job.k

\* One iteration of the retry loop up to the processor call: wait for the
\* scope, return without a Result if it is done, else invoke the processor.
AttemptStart(w) ==
    /\ ~panicked
    /\ w \in DOMAIN workers
    /\ workers[w].pc = "attempt"
    /\ ctx # "nil"
    /\ IF Done(ctx)
       THEN /\ workers' = [workers EXCEPT ![w] = LeaveProcessJob(@)]
            /\ UNCHANGED invoked
       ELSE /\ invoked' = invoked (+) SetToBag({workers[w].job.id})
            /\ workers' = [workers EXCEPT ![w].pc = "inflight",
                              ![w].scope = ProcessorScope,
                              ![w].err = ProcessorFails(workers[w].job),
                              ![w].data = IF ProcessorFails(workers[w].job)
                                          THEN 0 ELSE workers[w].job.id]
    /\ UNCHANGED <<poolVars, chanVars, ctxVars, runnerVars, panicked, rrVars, deques,
                   prioVars, clientVars>>

\* Where the retry loop goes when the processor has returned: `break` leaves
\* the select statement it stands in, not the for loop, so the loop goes on to
\* attempt+1 on success as on failure.
AfterAttempt(err, attempt) == RetryHead(attempt + 1)

\* The processor returns; result, err are assigned; attempt++.
AttemptReturn(w) ==
    /\ ~panicked
    /\ w \in DOMAIN workers
    /\ workers[w].pc = "inflight"
    /\ workers' = [workers EXCEPT ![w].pc = AfterAttempt(workers[w].err, workers[w].attempt),
                                  ![w].attempt = @ + 1]
    /\ UNCHANGED <<poolVars, chanVars, ctxVars, runnerVars, panicked, invoked, rrVars,
                   deques, prioVars, clientVars>>

\* wp.results <- Result{...}: blocks while the buffer is full, panics on a
\* closed channel.
Emit(w) ==
    /\ ~panicked
    /\ w \in DOMAIN workers
    /\ workers[w].pc = "send"
    /\ IF resultsClosed > 0
       THEN /\ panicked' = TRUE      \* send on closed channel
            /\ UNCHANGED <<results, emitted, workers>>
       ELSE /\ Len(results) < config.BufferSize
            /\ results' = Append(results, Result(workers[w].job, workers[w].data,
                                                 workers[w].err, w))
            /\ emitted' = emitted (+) SetToBag({workers[w].job.id})
            /\ workers' = [workers EXCEPT ![w] = LeaveProcessJob(@)]
            /\ UNCHANGED panicked
    /\ UNCHANGED <<poolVars, resultsClosed, ctxVars, runnerVars, invoked, rrVars,
                   deques, prioVars, clientVars>>

----------------------------------------------------------------------------
(* Round-robin *)

\* An inbox of len(wp.jobs)/wp.config.NumWorkers places, without the +1.
InboxCapFloor == max(1, NumJobs \div NumWorkers)

\* bufferSize := max(1, len(wp.jobs)/wp.config.NumWorkers+1)
InboxCap == max(1, (NumJobs \div NumWorkers) + 1)

\* runRoundRobin, first loop: the job channels, the workers.
runRoundRobin ==
    /\ ~panicked
    /\ pc = "strategy"
    /\ StrategyOf(config.Strategy) = RoundRobin
    /\ inbox' = [w \in WorkerIds |-> << >>]
    /\ inboxClosed' = FALSE
    /\ workers' = [w \in WorkerIds |-> Worker("recv")]
    /\ dispatched' = 0
    /\ pc' = "dispatch"
    /\ UNCHANGED <<poolVars, chanVars, ctxVars, collected, ret, runs, metrics, panicked,
                   invoked, deques, prioVars, clientVars>>

\* The dispatch loop handing every job to the worker after the intended one.
workerIndexNext(i) == (i + 1) % NumWorkers

\* workerIndex := i % wp.config.NumWorkers
workerIndex(i) == i % NumWorkers

\* The dispatch loop's select, case jobChannels[workerIndex] <- job.
DispatchSend ==
    /\ ~panicked
    /\ pc = "dispatch"
    /\ dispatched < NumJobs
    /\ Len(inbox[workerIndex(dispatched)]) < InboxCap
    /\ inbox' = [inbox EXCEPT ![workerIndex(dispatched)] = Append(@, jobs[dispatched + 1])]
    /\ dispatched' = dispatched + 1
    /\ UNCHANGED <<poolVars, chanVars, ctxVars, pc, collected, ret, runs, metrics,
                   workers, panicked, invoked, inboxClosed, deques, prioVars, clientVars>>

\* The dispatch loop's select, case <-wp.ctx.Done(): return wp.ctx.Err(), with
\* the job channels and wp.results left open and the workers not waited for.
DispatchCancelled ==
    /\ ~panicked
    /\ pc = "dispatch"
    /\ dispatched < NumJobs
    /\ Done(ctx)
    /\ RunFail(CtxErr(ctx))
    /\ UNCHANGED <<poolVars, chanVars, cancelSeen, cancelledInRun, stops, dispatched, collected,
                   runs, metrics, workers, panicked, invoked, rrVars, deques, prioVars,
                   clientVars>>

\* for _, ch := range jobChannels { close(ch) }
CloseInboxes ==
    /\ ~panicked
    /\ pc = "dispatch"
    /\ dispatched = NumJobs
    /\ inboxClosed' = TRUE
    /\ pc' = "wait"
    /\ UNCHANGED <<poolVars, chanVars, ctxVars, dispatched, collected, ret, runs,
                   metrics, workers, panicked, invoked, inbox, deques, prioVars,
                   clientVars>>

\* worker(id, jobChannels[id], wg): `for job := range jobs` receives the next
\* job, or ends with the range.
WorkerRecv(w) ==
    /\ ~panicked
    /\ w \in DOMAIN workers
    /\ workers[w].pc = "recv"
    /\ StrategyOf(config.Strategy) = RoundRobin
    /\ IF inbox[w] # << >>
       THEN /\ inbox' = [inbox EXCEPT ![w] = Tail(@)]
            /\ workers' = [workers EXCEPT ![w].pc = "scope", ![w].job = Head(inbox[w])]
       ELSE /\ inboxClosed
            /\ workers' = [workers EXCEPT ![w].pc = "done"]
            /\ UNCHANGED inbox
    /\ UNCHANGED <<poolVars, chanVars, ctxVars, runnerVars, panicked, invoked,
                   inboxClosed, deques, prioVars, clientVars>>

\* worker(id, jobs, wg), with the job it has received: the wait for wp.ctx to
\* be set, then the select: return on a done scope, else processJob(id, job).
WorkerScope(w) ==
    /\ ~panicked
    /\ w \in DOMAIN workers
    /\ workers[w].pc = "scope"
    /\ ctx # "nil"
    /\ workers' = [workers EXCEPT ![w] =
                      IF Done(ctx) THEN [@ EXCEPT !.pc = "done", !.job = ZeroJob]
                      ELSE EnterProcessJob(@, workers[w].job)]
    /\ UNCHANGED <<poolVars, chanVars, ctxVars, runnerVars, panicked, invoked, rrVars,
                   deques, prioVars, clientVars>>

----------------------------------------------------------------------------
(* Chunked *)

\* chunkSize := max(1, len(wp.jobs)/wp.config.NumWorkers)
ChunkSize(L, N) == max(1, L \div N)
\* remainder := len(wp.jobs) % wp.config.NumWorkers
Remainder(L, N) == L % N

\* `end` of iteration i of runChunked's loop, and `start` of iteration i
\* (start = 0 at first, start = end after each iteration).
RECURSIVE ChunkEnd(_, _, _)
ChunkStart(L, N, i) == IF i = 0 THEN 0 ELSE ChunkEnd(L, N, i - 1)
ChunkEnd(L, N, i) ==
    ChunkStart(L, N, i) + ChunkSize(L, N) + (IF i < Remainder(L, N) THEN 1 ELSE 0)

\* Iteration i starts a worker: `if start < len(wp.jobs)`.
ChunkSpawned(L, N, i) == ChunkStart(L, N, i) < L

\* wp.jobs[start:end] panics when end > cap(wp.jobs).
ChunkPanics(L, cap, N) ==
    \E i \in 0..(N - 1) : ChunkSpawned(L, N, i) /\ ChunkEnd(L, N, i) > cap

\* The batch read from its last element down.
BackingAtDescending(i) == IF i < NumJobs THEN jobs[NumJobs - i] ELSE ZeroJob

\* Element i of the backing array of wp.jobs: beyond len it holds the zero Job.
BackingAt(i) == IF i < NumJobs THEN jobs[i + 1] ELSE ZeroJob

\* runChunked up to wg.Wait(): the slices, the workers.
runChunked ==
    /\ ~panicked
    /\ pc = "strategy"
    /\ StrategyOf(config.Strategy) = Chunked
    /\ IF ChunkPanics(NumJobs, jobsCap, NumWorkers)
       THEN /\ panicked' = TRUE      \* slice bounds out of range
            /\ UNCHANGED <<workers, pc>>
       ELSE /\ workers' = [w \in WorkerIds |->
                              IF ChunkSpawned(NumJobs, NumWorkers, w)
                              THEN [Worker("next") EXCEPT
                                       !.lo = ChunkStart(NumJobs, NumWorkers, w),
                                       !.idx = ChunkStart(NumJobs, NumWorkers, w),
                                       !.hi = ChunkEnd(NumJobs, NumWorkers, w)]
                              ELSE Worker("none")]
            /\ pc' = "wait"
            /\ UNCHANGED panicked
    /\ UNCHANGED <<poolVars, chanVars, ctxVars, dispatched, collected, ret, runs, metrics,
                   invoked, rrVars, deques, prioVars, clientVars>>

\* workerWithSlice: one iteration of `for _, job := range jobSlice` up to the
\* processJob call, or the end of the range.
WorkerNext(w) ==
    /\ ~panicked
    /\ w \in DOMAIN workers
    /\ workers[w].pc = "next"
    /\ IF workers[w].idx >= workers[w].hi
       THEN workers' = [workers EXCEPT ![w].pc = "done"]
       ELSE /\ ctx # "nil"
            /\ workers' = [workers EXCEPT ![w] =
                              IF Done(ctx) THEN [@ EXCEPT !.pc = "done"]
                              ELSE [EnterProcessJob(@, BackingAt(workers[w].idx))
                                       EXCEPT !.idx = @ + 1]]
    /\ UNCHANGED <<poolVars, chanVars, ctxVars, runnerVars, panicked, invoked, rrVars,
                   deques, prioVars, clientVars>>

----------------------------------------------------------------------------
(* The work-stealing deque *)

\* A deque: top, bottom, buffer (Go index i is buffer[i+1]) and the number of
\* holders of mu's read lock. Push and Pop hold mu exclusively for their whole
\* body, so each is one step, taken when no reader holds mu.

\* NewWorkStealingDeque(initialSize)
NewWorkStealingDeque(initialSize) ==
    LET n == IF initialSize <= 0 THEN DefaultDequeSize ELSE initialSize
    IN  [top |-> 0, bottom |-> 0, buffer |-> [i \in 1..n |-> ZeroJob], readers |-> 0]

\* grow: a buffer twice as long, the old buffer copied to its front.
growFront(d) ==
    LET n == Len(d.buffer)
    IN  [d EXCEPT !.buffer = [x \in 1..(2 * n) |-> IF x <= n THEN d.buffer[x] ELSE ZeroJob]]

\* grow: a buffer twice as long, live entries rehomed by index.
grow(d) ==
    LET n == Len(d.buffer)
        live == d.top..(d.bottom - 1)
        last(x) == CHOOSE i \in live : i % (2 * n) = x /\ \A j \in live : j % (2 * n) = x => j <= i
    IN  [d EXCEPT !.buffer = [x \in 1..(2 * n) |->
                                 IF \E i \in live : i % (2 * n) = x - 1
                                 THEN d.buffer[(last(x - 1) % n) + 1]
                                 ELSE ZeroJob]]

\* Push(job)
DequePush(d, job) ==
    LET g == IF d.bottom - d.top >= Len(d.buffer) THEN grow(d) ELSE d
    IN  [g EXCEPT !.buffer[(d.bottom % Len(g.buffer)) + 1] = job, !.bottom = d.bottom + 1]

\* Pop() that takes the job at top.
DequePopOldest(d) ==
    LET bottom == d.bottom - 1
        top == d.top
    IN  IF top > bottom
        THEN [deque |-> [d EXCEPT !.bottom = top], job |-> ZeroJob, ok |-> FALSE]
        ELSE [deque |-> [d EXCEPT !.bottom = IF top = bottom THEN top ELSE bottom],
              job |-> d.buffer[(top % Len(d.buffer)) + 1], ok |-> TRUE]

\* Pop(): the deque afterwards, the job, ok.
DequePop(d) ==
    LET bottom == d.bottom - 1
        top == d.top
    IN  IF top > bottom
        THEN [deque |-> [d EXCEPT !.bottom = top], job |-> ZeroJob, ok |-> FALSE]
        ELSE [deque |-> [d EXCEPT !.bottom = IF top = bottom THEN top ELSE bottom],
              job |-> d.buffer[(bottom % Len(d.buffer)) + 1], ok |-> TRUE]

\* Steal(), up to its `d.top++`: top >= bottom, and the job read at top.
StealEmpty(d) == d.top >= d.bottom
StealJob(d) == d.buffer[(d.top % Len(d.buffer)) + 1]

\* Steal() with no other thread in the deque: the deque afterwards, the job, ok.
DequeSteal(d) ==
    IF StealEmpty(d)
    THEN [deque |-> d, job |-> ZeroJob, ok |-> FALSE]
    ELSE [deque |-> [d EXCEPT !.top = @ + 1], job |-> StealJob(d), ok |-> TRUE]

\* Size(), IsEmpty()
Size(d) == d.bottom - d.top
IsEmpty(d) == Size(d) = 0

----------------------------------------------------------------------------
(* Work stealing *)

\* deques[i%N].Push(job) for the jobs from index i on.
RECURSIVE Seed(_, _)
Seed(ds, i) ==
    IF i >= NumJobs THEN ds
    ELSE Seed([ds EXCEPT ![i % NumWorkers] = DequePush(@, jobs[i + 1])], i + 1)

\* runWorkStealing up to wg.Wait(): the deques, the seeding, the workers.
runWorkStealing ==
    /\ ~panicked
    /\ pc = "strategy"
    /\ StrategyOf(config.Strategy) = WorkStealing
    /\ deques' = Seed([w \in WorkerIds |->
                          NewWorkStealingDeque((NumJobs \div NumWorkers) + 1)], 0)
    /\ workers' = [w \in WorkerIds |-> Worker("top")]
    /\ pc' = "wait"
    /\ UNCHANGED <<poolVars, chanVars, ctxVars, dispatched, collected, ret, runs, metrics,
                   panicked, invoked, rrVars, prioVars, clientVars>>

\* The steal loop's next attempt from a on: `continue` past victimID == id.
RECURSIVE NextAttempt(_, _)
NextAttempt(w, a) ==
    IF a < 2 * NumWorkers /\ (w + a + 1) % NumWorkers = w THEN NextAttempt(w, a + 1) ELSE a

VictimOf(w, a) == (w + a + 1) % NumWorkers

\* workStealingWorker, head of the loop: the scope, then myDeque.Pop().
WorkerTop(w) ==
    /\ ~panicked
    /\ w \in DOMAIN workers
    /\ workers[w].pc = "top"
    /\ ctx # "nil"
    /\ IF Done(ctx)
       THEN /\ workers' = [workers EXCEPT ![w].pc = "done"]
            /\ UNCHANGED deques
       ELSE /\ deques[w].readers = 0
            /\ deques' = [deques EXCEPT ![w] = DequePop(deques[w]).deque]
            /\ workers' = [workers EXCEPT ![w] =
                              IF DequePop(deques[w]).ok
                              THEN EnterProcessJob(@, DequePop(deques[w]).job)
                              ELSE [@ EXCEPT !.pc = "steal", !.att = NextAttempt(w, 0)]]
    /\ UNCHANGED <<poolVars, chanVars, ctxVars, runnerVars, panicked, invoked, rrVars,
                   prioVars, clientVars>>

\* One attempt of the steal loop: deques[victimID].Steal() up to `d.top++`
\* (RLock, the reads of top, bottom and the buffer); or the end of the loop.
WorkerSteal(w) ==
    /\ ~panicked
    /\ w \in DOMAIN workers
    /\ workers[w].pc = "steal"
    /\ IF workers[w].att >= 2 * NumWorkers
       THEN /\ workers' = [workers EXCEPT ![w].pc = "scan", ![w].att = 0, ![w].idx = 0]
            /\ UNCHANGED deques
       ELSE LET v == VictimOf(w, workers[w].att)
            IN  IF StealEmpty(deques[v])
                THEN /\ workers' = [workers EXCEPT
                                       ![w].att = NextAttempt(w, workers[w].att + 1)]
                     /\ UNCHANGED deques
                ELSE /\ deques' = [deques EXCEPT ![v].readers = @ + 1]
                     /\ workers' = [workers EXCEPT ![w].pc = "stealLoad", ![w].victim = v,
                                                   ![w].job = StealJob(deques[v])]
    /\ UNCHANGED <<poolVars, chanVars, ctxVars, runnerVars, panicked, invoked, rrVars,
                   prioVars, clientVars>>

\* Steal's `d.top++`, the load of d.top.
WorkerStealLoad(w) ==
    /\ ~panicked
    /\ w \in DOMAIN workers
    /\ workers[w].pc = "stealLoad"
    /\ workers' = [workers EXCEPT ![w].pc = "stealStore",
                                  ![w].tmp = deques[workers[w].victim].top]
    /\ UNCHANGED <<poolVars, chanVars, ctxVars, runnerVars, panicked, invoked, rrVars,
                   deques, prioVars, clientVars>>

\* Steal's `d.top++`, the store; RUnlock; return job, true; processJob is entered.
WorkerStealStore(w) ==
    /\ ~panicked
    /\ w \in DOMAIN workers
    /\ workers[w].pc = "stealStore"
    /\ deques' = [deques EXCEPT ![workers[w].victim].top = workers[w].tmp + 1,
                                ![workers[w].victim].readers = @ - 1]
    /\ workers' = [workers EXCEPT ![w] =
                      [EnterProcessJob(@, workers[w].job) EXCEPT
                          !.att = 0, !.victim = 0, !.tmp = 0]]
    /\ UNCHANGED <<poolVars, chanVars, ctxVars, runnerVars, panicked, invoked, rrVars,
                   prioVars, clientVars>>

\* `if !stolen`: one deque.IsEmpty() of the scan; return when all were empty,
\* else sleep and loop.
WorkerScan(w) ==
    /\ ~panicked
    /\ w \in DOMAIN workers
    /\ workers[w].pc = "scan"
    /\ workers' = [workers EXCEPT ![w] =
                      IF ~IsEmpty(deques[workers[w].idx])
                      THEN [@ EXCEPT !.pc = "top", !.idx = 0]
                      ELSE IF workers[w].idx + 1 >= NumWorkers
                      THEN [@ EXCEPT !.pc = "done", !.idx = 0]
                      ELSE [@ EXCEPT !.idx = @ + 1]]
    /\ UNCHANGED <<poolVars, chanVars, ctxVars, runnerVars, panicked, invoked, rrVars,
                   deques, prioVars, clientVars>>

----------------------------------------------------------------------------
(* The priority queue: a binary heap in items, index i is items[i+1] *)

\* shouldSwap without the tie-break on Created.
shouldSwapNoTie(items, parent, child) ==
    LET parentJob == items[parent + 1]
        childJob == items[child + 1]
    IN  childJob.priority > parentJob.priority

\* shouldSwap(parent, child): the child has the higher priority, or the same
\* priority and the earlier Created.
shouldSwap(items, parent, child) ==
    LET parentJob == items[parent + 1]
        childJob == items[child + 1]
    IN  IF parentJob.priority # childJob.priority
        THEN childJob.priority > parentJob.priority
        ELSE parentJob.created > childJob.created

Swap(items, i, j) == [items EXCEPT ![i + 1] = items[j + 1], ![j + 1] = items[i + 1]]

RECURSIVE bubbleUp(_, _)
bubbleUp(items, index) ==
    IF index > 0
    THEN LET parent == (index - 1) \div 2
         IN  IF shouldSwap(items, parent, index)
             THEN bubbleUp(Swap(items, index, parent), parent)
             ELSE items
    ELSE items

RECURSIVE bubbleDown(_, _)
bubbleDown(items, index) ==
    LET left == 2 * index + 1
        right == 2 * index + 2
        s1 == IF left < Len(items) /\ shouldSwap(items, index, left) THEN left ELSE index
        s2 == IF right < Len(items) /\ shouldSwap(items, s1, right) THEN right ELSE s1
    IN  IF s2 = index THEN items ELSE bubbleDown(Swap(items, index, s2), s2)

\* PriorityQueue.Push(job)
PQPush(items, job) == bubbleUp(Append(items, job), Len(items))

\* PriorityQueue.Pop() without the bubbleDown after the last item moved to the root.
PQPopNoSift(items) ==
    LET n == Len(items)
    IN  IF n = 0
        THEN [job |-> ZeroJob, ok |-> FALSE, items |-> items]
        ELSE [job |-> items[1], ok |-> TRUE,
              items |-> SubSeq([items EXCEPT ![1] = items[n]], 1, n - 1)]

\* PriorityQueue.Pop(): Job{}, false on an empty queue; else the root, true,
\* and the items afterwards.
PQPop(items) ==
    LET n == Len(items)
        moved == SubSeq([items EXCEPT ![1] = items[n]], 1, n - 1)
    IN  IF n = 0
        THEN [job |-> ZeroJob, ok |-> FALSE, items |-> items]
        ELSE [job |-> items[1], ok |-> TRUE,
              items |-> IF n - 1 > 0 THEN bubbleDown(moved, 0) ELSE moved]

----------------------------------------------------------------------------
(* Priority-based *)

\* priorityQueue.Push of the jobs from index i on, each stamped if unstamped.
RECURSIVE Fill(_, _)
Fill(items, i) ==
    IF i >= NumJobs THEN items ELSE Fill(PQPush(items, Stamp(jobs[i + 1], now)), i + 1)

\* runPriorityBased up to wg.Wait(): the queue, workQueue, the workers, the
\* dispatcher goroutine.
runPriorityBased ==
    /\ ~panicked
    /\ pc = "strategy"
    /\ StrategyOf(config.Strategy) = PriorityBased
    /\ pq' = Fill(<< >>, 0)
    /\ workQueue' = << >>
    /\ workQueueClosed' = FALSE
    /\ dispatcher' = "run"
    /\ workers' = [w \in WorkerIds |-> Worker("recv")]
    /\ pc' = "wait"
    /\ UNCHANGED <<poolVars, chanVars, ctxVars, dispatched, collected, ret, runs, metrics,
                   panicked, invoked, rrVars, deques, clientVars>>

\* The dispatcher reads wp.ctx without holding ctxMu: once Run's error path
\* has written nil, the read yields nil or still the cancelled scope.
StaleScope == ctx = "nil" /\ pc = "returned"

\* The dispatcher: Pop, then the select's case workQueue <- job.
PrioSend ==
    /\ ~panicked
    /\ dispatcher = "run"
    /\ pq # << >>
    /\ (ctx # "nil" \/ StaleScope)
    /\ Len(workQueue) < config.BufferSize
    /\ workQueue' = Append(workQueue, PQPop(pq).job)
    /\ pq' = PQPop(pq).items
    /\ UNCHANGED <<poolVars, chanVars, ctxVars, runnerVars, workers, panicked, invoked,
                   rrVars, deques, workQueueClosed, dispatcher, clientVars>>

\* The dispatcher: Pop, then the select's case <-wp.ctx.Done(): return, and
\* the deferred close(workQueue). The popped job is dropped.
PrioCancelled ==
    /\ ~panicked
    /\ dispatcher = "run"
    /\ pq # << >>
    /\ (Done(ctx) \/ StaleScope)
    /\ pq' = PQPop(pq).items
    /\ workQueueClosed' = TRUE
    /\ dispatcher' = "done"
    /\ UNCHANGED <<poolVars, chanVars, ctxVars, runnerVars, workers, panicked, invoked,
                   rrVars, deques, workQueue, clientVars>>

\* The dispatcher evaluates wp.ctx.Done() after Run's error path set wp.ctx to
\* nil: nil pointer dereference.
PrioNilScope ==
    /\ ~panicked
    /\ dispatcher = "run"
    /\ pq # << >>
    /\ ctx = "nil"
    /\ panicked' = TRUE
    /\ UNCHANGED <<poolVars, chanVars, ctxVars, runnerVars, workers, invoked, rrVars,
                   deques, prioVars, clientVars>>

\* The dispatcher: the queue is empty, the loop ends, deferred close(workQueue).
PrioClose ==
    /\ ~panicked
    /\ dispatcher = "run"
    /\ pq = << >>
    /\ workQueueClosed' = TRUE
    /\ dispatcher' = "done"
    /\ UNCHANGED <<poolVars, chanVars, ctxVars, runnerVars, workers, panicked, invoked,
                   rrVars, deques, pq, workQueue, clientVars>>

\* worker(id, workQueue, wg): `for job := range jobs` receives the next job,
\* or ends with the range.
WorkerRecvShared(w) ==
    /\ ~panicked
    /\ w \in DOMAIN workers
    /\ workers[w].pc = "recv"
    /\ StrategyOf(config.Strategy) = PriorityBased
    /\ IF workQueue # << >>
       THEN /\ workQueue' = Tail(workQueue)
            /\ workers' = [workers EXCEPT ![w].pc = "scope", ![w].job = Head(workQueue)]
       ELSE /\ workQueueClosed
            /\ workers' = [workers EXCEPT ![w].pc = "done"]
            /\ UNCHANGED workQueue
    /\ UNCHANGED <<poolVars, chanVars, ctxVars, runnerVars, panicked, invoked, rrVars,
                   deques, pq, workQueueClosed, dispatcher, clientVars>>

----------------------------------------------------------------------------
(* A program that builds a pool, loads jobs and runs it *)

\* The jobs a caller passes: ids in the order of creation; the processor fails
\* job id's first id % 2 invocations; Created is left unset.
JobOf(id) == Job(id, id % 2, id % 2, 0)

\* The batch of n fresh jobs.
Batch(n) == [i \in 1..n |-> JobOf(nextId + i - 1)]

\* The configurations a caller passes to NewWithConfig.
Configs ==
    {Config(nw, 1, st, mr) : nw \in 0..MaxWorkers,
                             st \in {RoundRobin, Chunked, WorkStealing, PriorityBased},
                             mr \in 0..MaxRetriesCfg}

Init == \E c \in Configs : InitPool(c)

\* The caller loads its jobs before it calls Run (the job-addition calls are
\* safe only then), in any mix of AddJobs and AddJob.
AddJobsAny ==
    /\ pc = "idle"
    /\ \E n \in 1..MaxJobs : nextId + n - 1 <= MaxJobs /\ AddJobs(Batch(n))
AddJobAny == pc = "idle" /\ nextId <= MaxJobs /\ AddJob(JobOf(nextId))

\* The steps of Run and of the goroutines it starts.
RunStep ==
    \/ runRoundRobin
    \/ DispatchSend
    \/ DispatchCancelled
    \/ CloseInboxes
    \/ runChunked
    \/ runWorkStealing
    \/ runPriorityBased
    \/ JoinAndClose
    \/ Collect
    \/ RunReturn

DispatcherStep ==
    \/ PrioSend
    \/ PrioCancelled
    \/ PrioNilScope
    \/ PrioClose

WorkerStep(w) ==
    \/ WorkerRecv(w)
    \/ WorkerRecvShared(w)
    \/ WorkerScope(w)
    \/ WorkerNext(w)
    \/ WorkerTop(w)
    \/ WorkerSteal(w)
    \/ WorkerStealLoad(w)
    \/ WorkerStealStore(w)
    \/ WorkerScan(w)
    \/ AttemptStart(w)
    \/ AttemptReturn(w)
    \/ Emit(w)

Next ==
    \/ WithProcessor
    \/ AddJobsAny
    \/ AddJobAny
    \/ Run
    \/ Stop
    \/ RunStep
    \/ DispatcherStep
    \/ \E w \in 0..(MaxWorkers - 1) : WorkerStep(w)

Spec == Init /\ [][Next]_vars

----------------------------------------------------------------------------
(* A program that loads one batch and runs the pool; it may call Stop, and the
   deadline of the run scope may pass *)

ConfigsCancel ==
    {Config(nw, 1, st, 0) : nw \in 1..MaxCancelWorkers,
                            st \in {RoundRobin, Chunked, WorkStealing, PriorityBased}}

InitCancel == \E c \in ConfigsCancel : InitPool(c)

AddJobsOnce == \E n \in 1..MaxCancelJobs : jobs = << >> /\ AddJobs(Batch(n))

NextCancel ==
    \/ WithProcessor
    \/ AddJobsOnce
    \/ Run
    \/ Stop
    \/ Timeout
    \/ RunStep
    \/ DispatcherStep
    \/ \E w \in 0..(MaxCancelWorkers - 1) : WorkerStep(w)

SpecCancel == InitCancel /\ [][NextCancel]_vars

----------------------------------------------------------------------------
(* A program that only loads jobs *)

InitAdd == InitPool(Config(1, 1, RoundRobin, 0))

AddJobsMore == \E n \in 0..MaxBatch : now <= MaxAddCalls /\ AddJobs(Batch(n))
AddJobMore == now <= MaxAddCalls /\ AddJob(JobOf(nextId))

NextAdd ==
    \/ AddJobsMore
    \/ AddJobMore

SpecAdd == InitAdd /\ [][NextAdd]_vars

----------------------------------------------------------------------------
(* A program that runs more jobs than the results channel buffers *)

ConfigsFair == {Config(nw, 1, RoundRobin, 0) : nw \in 1..MaxFairWorkers}

InitFair == \E c \in ConfigsFair : InitPool(c)

AddJobsMany ==
    \E n \in {MinBufferSize, OverflowJobs} : jobs = << >> /\ AddJobs(Batch(n))

RunStepRR ==
    \/ runRoundRobin
    \/ DispatchSend
    \/ DispatchCancelled
    \/ CloseInboxes
    \/ JoinAndClose
    \/ Collect
    \/ RunReturn

WorkerStepRR(w) ==
    \/ WorkerRecv(w)
    \/ WorkerScope(w)
    \/ AttemptStart(w)
    \/ AttemptReturn(w)
    \/ Emit(w)

NextFair ==
    \/ WithProcessor
    \/ AddJobsMany
    \/ Run
    \/ Stop
    \/ Timeout
    \/ RunStepRR
    \/ \E w \in 0..(MaxFairWorkers - 1) : WorkerStepRR(w)

\* The scheduler runs every goroutine that can take a step, and the deadline
\* of a scope that stays active passes; the callers of Stop are under no
\* obligation.
SpecFair ==
    /\ InitFair
    /\ [][NextFair]_vars
    /\ WF_vars(RunStepRR)
    /\ WF_vars(Timeout)
    /\ \A w \in 0..(MaxFairWorkers - 1) : WF_vars(WorkerStepRR(w))

----------------------------------------------------------------------------
(* A program that runs the same pool twice *)

ConfigsRerun ==
    {Config(nw, 1, st, 0) : nw \in 1..2, st \in {RoundRobin, Chunked, PriorityBased}}
        \cup {Config(1, 1, WorkStealing, 0)}

InitRerun == \E c \in ConfigsRerun : InitPool(c)

NextRerun ==
    \/ WithProcessor
    \/ AddJobsAny
    \/ AddJobAny
    \/ Run
    \/ RunAgain
    \/ runRoundRobin
    \/ DispatchSend
    \/ CloseInboxes
    \/ runChunked
    \/ runWorkStealing
    \/ runPriorityBased
    \/ PrioSend
    \/ PrioClose
    \/ JoinAndClose
    \/ Collect
    \/ RunReturn
    \/ \E w \in 0..1 :
          \/ WorkerRecv(w)
          \/ WorkerRecvShared(w)
          \/ WorkerScope(w)
          \/ WorkerNext(w)
          \/ WorkerTop(w)
          \/ WorkerSteal(w)
          \/ WorkerScan(w)
          \/ AttemptStart(w)
          \/ AttemptReturn(w)
          \/ Emit(w)

SpecRerun == InitRerun /\ [][NextRerun]_vars

----------------------------------------------------------------------------
(* Claims on a run of the pool *)

\* The bag of the ids of a sequence of jobs or of Results.
IdsOf(seq) ==
    [id \in {seq[i].id : i \in DOMAIN seq} |-> Cardinality({i \in DOMAIN seq : seq[i].id = id})]

Min(a, b) == IF a < b THEN a ELSE b

\* Run has returned from a run that passed the pre-flight checks.
Returned == pc = "returned" /\ runs >= 1

\* C1: when Run returns without error, the Results it returns carry exactly
\* the ids of the submitted jobs, each id as often as it was submitted.
ResultConservation ==
    (Returned /\ ret.err = NoErr) => IdsOf(ret.results) = IdsOf(jobs)

\* C4: when processJob emits the Result of a job whose processor fails its
\* first k invocations, the processor was invoked min(k+1, MaxRetries+1) times
\* and the Result is a success exactly when k <= MaxRetries.
RetryExactness ==
    \A w \in DOMAIN workers :
        workers[w].pc = "send" =>
            /\ workers[w].attempt = Min(workers[w].job.k + 1, config.MaxRetries + 1)
            /\ workers[w].err = (workers[w].job.k > config.MaxRetries)

\* The slice runChunked gave worker i (empty for a worker it did not start).
SliceOf(i) == workers[i].lo..(workers[i].hi - 1)

\* C5: the chunked split gives the workers contiguous, disjoint index ranges
\* inside [0, L) that cover every index, the first L mod N of them one longer
\* than floor(L/N), also when L < N; it never fails.
ChunkCoverage ==
    (runs >= 1 /\ StrategyOf(config.Strategy) = Chunked) =>
        /\ ~panicked
        /\ workers # None =>
              /\ \A i \in WorkerIds : SliceOf(i) \subseteq 0..(NumJobs - 1)
              /\ \A x \in 0..(NumJobs - 1) :
                    Cardinality({i \in WorkerIds : x \in SliceOf(i)}) = 1
              /\ \A i \in WorkerIds :
                    workers[i].hi - workers[i].lo =
                        (NumJobs \div NumWorkers) + (IF i < NumJobs % NumWorkers THEN 1 ELSE 0)
              /\ \A i \in WorkerIds \ {0} :
                    workers[i].pc # "none" => workers[i].lo = workers[i - 1].hi

\* C6: in every run, completed or cancelled, the results channel is closed
\* exactly once, only after every worker has exited, and nothing is sent on it
\* after the close.
ClosedOnce ==
    /\ resultsClosed <= 1
    /\ resultsClosed = 1 => AllWorkersExited
    /\ Returned => resultsClosed = 1
    /\ ~(panicked /\ resultsClosed > 0)

\* C7, as stated: a cancellation at any moment between the establishment of
\* the run scope and Run's return makes Run return a cancellation error and no
\* results.
CancelAlwaysObserved ==
    (Returned /\ cancelledInRun) => (ret.err # NoErr /\ ret.results = << >>)

\* C7, amended: a cancellation between the establishment of the run scope and
\* Run's last check of the scope makes Run, when it returns, return the
\* cancellation error and no results.
CancelObserved ==
    (Returned /\ cancelSeen) =>
        (ret.err \in {CtxErr("canceled"), CtxErr("deadline")} /\ ret.results = << >>)

\* The deadline of the run scope passed after a Result had been emitted and
\* before Run's last check, no Stop was called, and Run returned the
\* deadline's error and no results.
CancelObservedCase ==
    /\ Returned
    /\ cancelSeen
    /\ stops = 0
    /\ ret.err = CtxErr("deadline")
    /\ ret.results = << >>
    /\ emitted # EmptyBag

\* C3: emitting a Result never blocks a worker for good: for any number of
\* jobs, also more than the results channel buffers, Run eventually returns,
\* and when it returns without error it returns one Result per job.
EmissionNeverBlocks ==
    /\ (pc = "strategy") ~> (pc = "returned")
    /\ [](Returned /\ ret.err = NoErr => Len(ret.results) = NumJobs)

\* C8: once Stop has cancelled the scope of a Run, no processor invocation is
\* started any more and, the invocations in flight returning, Run eventually
\* returns.
CancellationLiveness ==
    /\ (ctx = "canceled") ~> (pc = "returned")
    /\ [][Done(ctx) => invoked' = invoked]_vars

\* C9: a second Run on a pool whose first Run succeeded executes the jobs
\* again and returns one Result per job.
RunAgainReturns ==
    runs >= 2 =>
        /\ ~panicked
        /\ pc = "returned" => (ret.err = NoErr /\ IdsOf(ret.results) = IdsOf(jobs))

\* C10: the job list is the concatenation, in call order, of all the jobs
\* passed to AddJob and AddJobs, and TotalJobs is its length.
AppendOnly ==
    /\ [i \in DOMAIN jobs |-> jobs[i].id] = added
    /\ metrics.TotalJobs = Len(added)

----------------------------------------------------------------------------
(* A deque and its clients: one owner thread, thief threads *)

\* A thief thread: "idle", or inside Steal at "load" / "store" of `d.top++`.
Thief(p) == [pc |-> p, job |-> ZeroJob, tmp |-> 0]

\* The owner calls Push with a fresh job.
OwnerPush ==
    /\ owner.pushed < MaxPush
    /\ deques[0].readers = 0
    /\ deques' = [deques EXCEPT ![0] = DequePush(@, Job(owner.pushed + 1, 0, 0, 0))]
    /\ owner' = [owner EXCEPT !.pushed = @ + 1]
    /\ UNCHANGED <<poolVars, chanVars, ctxVars, runnerVars, workers, panicked, invoked,
                   rrVars, prioVars, thieves, delivered, popped, getter, caller, adaptive>>

\* The owner calls Pop.
OwnerPop ==
    /\ owner.pushed > 0
    /\ deques[0].readers = 0
    /\ deques' = [deques EXCEPT ![0] = DequePop(@).deque]
    /\ delivered' = IF DequePop(deques[0]).ok
                    THEN delivered (+) SetToBag({DequePop(deques[0]).job.id})
                    ELSE delivered
    /\ UNCHANGED <<poolVars, chanVars, ctxVars, runnerVars, workers, panicked, invoked,
                   rrVars, prioVars, owner, thieves, popped, getter, caller, adaptive>>

\* A thief calls Steal: RLock, the reads; on a non-empty deque it goes on to `d.top++`.
ThiefSteal(t) ==
    /\ t \in DOMAIN thieves
    /\ thieves[t].pc = "idle"
    /\ ~StealEmpty(deques[0])
    /\ deques' = [deques EXCEPT ![0].readers = @ + 1]
    /\ thieves' = [thieves EXCEPT ![t] = [pc |-> "load", job |-> StealJob(deques[0]),
                                          tmp |-> 0]]
    /\ UNCHANGED <<poolVars, chanVars, ctxVars, runnerVars, workers, panicked, invoked,
                   rrVars, prioVars, owner, delivered, popped, getter, caller, adaptive>>

\* `d.top++`, the load.
ThiefLoad(t) ==
    /\ t \in DOMAIN thieves
    /\ thieves[t].pc = "load"
    /\ thieves' = [thieves EXCEPT ![t].pc = "store", ![t].tmp = deques[0].top]
    /\ UNCHANGED <<poolVars, chanVars, ctxVars, runnerVars, workers, panicked, invoked,
                   rrVars, deques, prioVars, owner, delivered, popped, getter, caller, adaptive>>

\* `d.top++`, the store; RUnlock; return job, true.
ThiefStore(t) ==
    /\ t \in DOMAIN thieves
    /\ thieves[t].pc = "store"
    /\ deques' = [deques EXCEPT ![0].top = thieves[t].tmp + 1, ![0].readers = @ - 1]
    /\ delivered' = delivered (+) SetToBag({thieves[t].job.id})
    /\ thieves' = [thieves EXCEPT ![t] = Thief("idle")]
    /\ UNCHANGED <<poolVars, chanVars, ctxVars, runnerVars, workers, panicked, invoked,
                   rrVars, prioVars, owner, popped, getter, caller, adaptive>>

\* A program that builds one deque and starts the thieves.
InitDeque ==
    /\ NewPool(Config(1, 0, RoundRobin, 0))
    /\ \E n \in 0..MaxDequeSize :
          deques = [d \in {0} |-> NewWorkStealingDeque(IF n = 0 THEN -1 ELSE n)]
    /\ thieves = [t \in 1..MaxThieves |-> Thief("idle")]

NextDeque ==
    \/ OwnerPush
    \/ OwnerPop
    \/ \E t \in 1..MaxThieves : ThiefSteal(t)
    \/ \E t \in 1..MaxThieves : ThiefLoad(t)
    \/ \E t \in 1..MaxThieves : ThiefStore(t)

SpecDeque == InitDeque /\ [][NextDeque]_vars

----------------------------------------------------------------------------
(* Claims on the deque *)

\* No thief is inside Steal and the deque holds nothing.
DequeDrained ==
    /\ \A t \in DOMAIN thieves : thieves[t].pc = "idle"
    /\ Size(deques[0]) <= 0

\* C2: with one owner calling Push and Pop and any number of thieves calling
\* Steal, every pushed job is returned by exactly one Pop or Steal: never
\* twice, only pushed jobs, and none is missing once the deque is drained.
DequeConservation ==
    thieves # None =>
        /\ \A id \in BagToSet(delivered) :
              id \in 1..owner.pushed /\ CopiesIn(id, delivered) = 1
        /\ DequeDrained => \A id \in 1..owner.pushed : CopiesIn(id, delivered) = 1

----------------------------------------------------------------------------
(* A program that builds a pool from any Config and loads it *)

GivenConfigs ==
    {[Config(nw, bs, RoundRobin, 0) EXCEPT !.Timeout = t] :
        nw \in (0 - MaxBelow)..MaxGivenWorkers,
        bs \in (0 - MaxBelow)..MaxGivenBuffer,
        t \in (0 - MaxBelow)..MaxGivenTimeout}

InitConfig == \E c \in GivenConfigs : InitPool(c)

NextConfig ==
    \/ WithProcessor
    \/ AddJobsOnce

SpecConfig == InitConfig /\ [][NextConfig]_vars

----------------------------------------------------------------------------
(* Claims on the construction *)

\* NumWorkers <= 0 became 1 and Timeout <= 0 became five minutes; the other
\* values of the two fields were kept.
WorkersAndTimeoutClamped ==
    /\ config.NumWorkers = IF given.NumWorkers <= 0 THEN 1 ELSE given.NumWorkers
    /\ config.Timeout = IF given.Timeout <= 0 THEN 300 ELSE given.Timeout

\* C11 as stated: after construction num_workers is 1 when the given value
\* was <= 0, buffer_size is 10 when the given value was below 10 (zero and
\* negative values included), and timeout is five minutes when the given
\* value was <= 0.
ClampedToTen ==
    /\ WorkersAndTimeoutClamped
    /\ config.BufferSize = IF given.BufferSize < 10 THEN 10 ELSE given.BufferSize

\* C11, amended: after construction num_workers is 1 when the given value
\* was <= 0, buffer_size is 100 when the given value was <= 0 and 10 when it
\* was between 1 and 9, timeout is five minutes when the given value was
\* <= 0, and every other given value is kept.
ClampedConfig ==
    /\ WorkersAndTimeoutClamped
    /\ config.BufferSize = IF given.BufferSize <= 0 THEN 100
                           ELSE IF given.BufferSize < 10 THEN 10
                           ELSE given.BufferSize

\* A pool built from a Config whose three fields were all out of range.
ClampedConfigCase ==
    /\ given.NumWorkers <= 0
    /\ given.BufferSize <= 0
    /\ given.Timeout <= 0
    /\ config.NumWorkers = 1
    /\ config.BufferSize = 100
    /\ config.Timeout = 300
    /\ processor

----------------------------------------------------------------------------
(* A program that runs prioritised jobs on one worker, without cancellation *)

\* The batches a caller passes: any priorities, any non-zero Created stamps,
\* in any order.
PrioBatches ==
    UNION {{[i \in 1..n |-> Job(i, 0, pr[i], cr[i])] :
               pr \in [1..n -> 0..MaxPriority], cr \in [1..n -> 1..MaxCreated]} :
           n \in 1..MaxPrioJobs}

InitPrio == InitPool(Config(1, 1, PriorityBased, 0))

AddJobsPrio == jobs = << >> /\ \E batch \in PrioBatches : AddJobs(batch)

NextPrio ==
    \/ WithProcessor
    \/ AddJobsPrio
    \/ Run
    \/ runPriorityBased
    \/ PrioSend
    \/ PrioClose
    \/ WorkerRecvShared(0)
    \/ WorkerScope(0)
    \/ AttemptStart(0)
    \/ AttemptReturn(0)
    \/ Emit(0)
    \/ JoinAndClose
    \/ Collect
    \/ RunReturn

SpecPrio == InitPrio /\ [][NextPrio]_vars

----------------------------------------------------------------------------
(* Claims on the priority strategy *)

\* Job a comes strictly before job b: higher priority, or the same priority
\* and the earlier Created.
Ahead(a, b) ==
    \/ a.priority > b.priority
    \/ a.priority = b.priority /\ a.created < b.created

\* C12: under the priority strategy with one worker and no cancellation the
\* processor is invoked on the jobs in the order of priority descending,
\* ties by Created ascending: the job the processor is working on never comes
\* strictly before a job the processor was invoked on earlier.
PriorityOrdering ==
    (StrategyOf(config.Strategy) = PriorityBased /\ NumWorkers = 1 /\ ~cancelledInRun) =>
        \A w \in DOMAIN workers :
            workers[w].pc = "inflight" =>
                \A i \in DOMAIN jobs :
                    jobs[i].id \in BagToSet(invoked) => ~Ahead(workers[w].job, jobs[i])

\* The batch listed a job behind one that comes strictly before it, and the
\* processor works on the first after it was invoked on the second.
PriorityOrderingCase ==
    /\ StrategyOf(config.Strategy) = PriorityBased
    /\ NumWorkers = 1
    /\ Len(jobs) >= 2
    /\ Ahead(jobs[2], jobs[1])
    /\ 0 \in DOMAIN workers
    /\ workers[0].pc = "inflight"
    /\ workers[0].job = jobs[1]
    /\ jobs[2].id \in BagToSet(invoked)

----------------------------------------------------------------------------
(* A program that calls Push and Pop on a priority queue *)

\* pq.Push(job) with a fresh job of any priority and Created.
HeapPush ==
    /\ popped.pushes + popped.pops < MaxHeapOps
    /\ Len(pq) < MaxHeapSize
    /\ \E pr \in 0..MaxPriority, cr \in 1..MaxCreated :
          pq' = PQPush(pq, Job(popped.pushes + 1, 0, pr, cr))
    /\ popped' = [popped EXCEPT !.pushes = @ + 1]
    /\ UNCHANGED <<poolVars, chanVars, ctxVars, runnerVars, workers, panicked, invoked,
                   rrVars, deques, workQueue, workQueueClosed, dispatcher,
                   owner, thieves, delivered, getter, caller, adaptive>>

\* job, ok := pq.Pop()
HeapPop ==
    /\ popped.pushes + popped.pops < MaxHeapOps
    /\ pq' = PQPop(pq).items
    /\ popped' = [popped EXCEPT !.pops = @ + 1,
                                !.job = PQPop(pq).job,
                                !.ok = PQPop(pq).ok,
                                !.prev = IF popped.ok
                                         THEN [@ EXCEPT ![popped.job.priority] =
                                                            popped.job.created]
                                         ELSE @]
    /\ UNCHANGED <<poolVars, chanVars, ctxVars, runnerVars, workers, panicked, invoked,
                   rrVars, deques, workQueue, workQueueClosed, dispatcher,
                   owner, thieves, delivered, getter, caller, adaptive>>

InitHeap == InitPool(Config(1, 1, PriorityBased, 0))

NextHeap ==
    \/ HeapPush
    \/ HeapPop

SpecHeap == InitHeap /\ [][NextHeap]_vars

----------------------------------------------------------------------------
(* Claims on the priority queue *)

\* The bag of the jobs of a queue.
JobsOf(items) ==
    [j \in {items[i] : i \in DOMAIN items} |-> Cardinality({i \in DOMAIN items : items[i] = j})]

\* C13 as stated: after any sequence of Push and Pop, Pop returns a job that
\* no remaining job comes strictly before, and jobs of equal priority are
\* popped in non-decreasing Created order: here, the job the last Pop
\* returned is not earlier than the job popped before it at its priority.
PoppedInCreatedOrder ==
    popped.ok => popped.prev[popped.job.priority] <= popped.job.created

\* C13, amended: after any sequence of Push and Pop, Pop on a non-empty queue
\* removes and returns one job of the queue such that no job remaining in the
\* queue has a higher priority, or the same priority and a strictly earlier
\* Created (so jobs of equal priority that are in the queue together are
\* popped in non-decreasing Created order); Pop on an empty queue returns the
\* zero job and false and leaves the queue empty.
HeapOrder ==
    [][popped'.pops # popped.pops =>
          IF pq = << >>
          THEN ~popped'.ok /\ popped'.job = ZeroJob /\ pq' = << >>
          ELSE /\ popped'.ok
               /\ JobsOf(pq') (+) SetToBag({popped'.job}) = JobsOf(pq)
               /\ \A i \in DOMAIN pq' : ~Ahead(pq'[i], popped'.job)]_vars

\* Pop returned a job that overtook two jobs pushed before it, both still in
\* the queue.
HeapOrderCase ==
    /\ popped.ok
    /\ Cardinality({i \in DOMAIN pq : /\ pq[i].id < popped.job.id
                                     /\ Ahead(popped.job, pq[i])}) >= 2

----------------------------------------------------------------------------
(* A program that runs the round-robin strategy and may call Stop *)

ConfigsRR == {Config(nw, 1, RoundRobin, 0) : nw \in 1..MaxRRWorkers}

InitRR == \E c \in ConfigsRR : InitPool(c)

AddJobsRR == jobs = << >> /\ \E n \in 1..MaxRRJobs : AddJobs(Batch(n))

NextRR ==
    \/ WithProcessor
    \/ AddJobsRR
    \/ Run
    \/ Stop
    \/ runRoundRobin
    \/ DispatchSend
    \/ DispatchCancelled
    \/ CloseInboxes
    \/ JoinAndClose
    \/ Collect
    \/ RunReturn
    \/ \E w \in 0..(MaxRRWorkers - 1) :
          \/ WorkerRecv(w)
          \/ WorkerScope(w)
          \/ AttemptStart(w)
          \/ AttemptReturn(w)
          \/ Emit(w)

SpecRR == InitRR /\ [][NextRR]_vars

----------------------------------------------------------------------------
(* Claims on the round-robin strategy *)

\* Every Result of the sequence carries the worker id i mod N, i the index
\* of its job in wp.jobs.
AssignedRoundRobin(seq) ==
    \A r \in DOMAIN seq :
        \A i \in 0..(NumJobs - 1) :
            jobs[i + 1].id = seq[r].id => seq[r].worker = i % NumWorkers

\* C14: under the round-robin strategy every Result for the job at index i
\* carries worker = i mod N: the Results in the channel, those Run has
\* collected and those Run returned.
RoundRobinAssignment ==
    StrategyOf(config.Strategy) = RoundRobin =>
        /\ AssignedRoundRobin(results)
        /\ AssignedRoundRobin(collected)
        /\ AssignedRoundRobin(ret.results)

\* Run returned three Results from two workers: jobs 0 and 2 were worker 0's.
RoundRobinAssignmentCase ==
    /\ StrategyOf(config.Strategy) = RoundRobin
    /\ NumWorkers = 2
    /\ Returned
    /\ Len(ret.results) = 3
    /\ \E r \in DOMAIN ret.results :
          ret.results[r].id = jobs[3].id /\ ret.results[r].worker = 0

----------------------------------------------------------------------------
(* Claims on the Results of a run, continued *)

\* C15: in every run of every strategy the number of Results emitted is at
\* most total_jobs, and every Result's id is the id of a job that was added.
NoSpuriousResults ==
    /\ BagCardinality(emitted) <= metrics.TotalJobs
    /\ \A id \in BagToSet(emitted) : \E i \in DOMAIN added : added[i] = id

\* C16: when Run returns, processed_jobs + failed_jobs equals the number of
\* Results Run returned.
SuccessFailurePartition ==
    Returned => metrics.ProcessedJobs + metrics.FailedJobs = Len(ret.results)

\* C17: in every reachable state processed_jobs + failed_jobs is at most
\* total_jobs, and the two are equal once a run returned without error.
MetricsBounded ==
    /\ metrics.ProcessedJobs + metrics.FailedJobs <= metrics.TotalJobs
    /\ (Returned /\ ret.err = NoErr) =>
           metrics.ProcessedJobs + metrics.FailedJobs = metrics.TotalJobs

\* C18: Run on a pool without a processor returns the no-processor error
\* and Run on a pool with a processor and no jobs returns the no-jobs error;
\* such a Run returns no Results, starts no worker, invokes no processor,
\* creates no run scope and leaves the metrics and the result channel as
\* they were; and only a Run that passed both checks starts a run.
PreflightErrors ==
    [][/\ (pc = "idle" /\ ret' # ret) =>
              /\ ~processor \/ NumJobs = 0
              /\ ret'.err = IF ~processor THEN ErrNoProcessor ELSE ErrNoJobs
              /\ ret'.results = << >>
              /\ UNCHANGED <<pc, workers, invoked, ctx, cancel, metrics, results,
                             resultsClosed>>
       /\ (pc = "idle" /\ pc' # "idle") => (processor /\ NumJobs > 0)]_vars

\* Run returned the no-jobs error on a pool with a processor.
PreflightErrorsCase ==
    /\ pc = "idle"
    /\ processor
    /\ NumJobs = 0
    /\ ret.err = ErrNoJobs
    /\ workers = None
    /\ invoked = EmptyBag
    /\ ctx = "nil"

\* C19: when the processor fails every attempt on some jobs and succeeds on
\* the others and the run is not cancelled, Run returns no error and one
\* Result per job; exactly the always-failing jobs carry an error and every
\* other job carries the processor's data.
FailuresConfined ==
    (Returned /\ ~cancelledInRun) =>
        /\ ret.err = NoErr
        /\ IdsOf(ret.results) = IdsOf(jobs)
        /\ \A r \in DOMAIN ret.results :
              \A i \in DOMAIN jobs :
                  jobs[i].id = ret.results[r].id =>
                      /\ ret.results[r].err = (jobs[i].k > config.MaxRetries)
                      /\ ~ret.results[r].err => ret.results[r].data = jobs[i].id

----------------------------------------------------------------------------
(* A program that runs the pool with a worker timeout configured *)

ConfigsTimeout ==
    {[Config(nw, 1, RoundRobin, mr) EXCEPT !.WorkerTimeout = wt] :
        nw \in 1..MaxRRWorkers, mr \in 0..MaxRetriesCfg, wt \in 0..MaxWorkerTimeout}

InitTimeout == \E c \in ConfigsTimeout : InitPool(c)

SpecTimeout == InitTimeout /\ [][NextRR]_vars

\* C20: the scope handed to each processor invocation is derived from the
\* run scope, and with worker_timeout > 0 it is additionally cancelled after
\* worker_timeout (so that the attempt counts as failed and is retried).
PerAttemptScope ==
    \A w \in DOMAIN workers :
        workers[w].pc = "inflight" =>
            /\ workers[w].scope.run
            /\ config.WorkerTimeout > 0 =>
                   workers[w].scope.timeout = config.WorkerTimeout

----------------------------------------------------------------------------
(* A program that calls Stop any number of times: before Run, during it, after it *)


ConfigsStop ==
    {Config(1, 1, st, 0) : st \in {RoundRobin, Chunked, WorkStealing, PriorityBased}}

InitStop == \E c \in ConfigsStop : InitPool(c)

NextStop ==
    \/ WithProcessor
    \/ AddJobsOnce
    \/ Run
    \/ Stop
    \/ StopIdle
    \/ RunStep
    \/ DispatcherStep
    \/ WorkerRecv(0)
    \/ WorkerRecvShared(0)
    \/ WorkerScope(0)
    \/ WorkerNext(0)
    \/ WorkerTop(0)
    \/ WorkerSteal(0)
    \/ WorkerScan(0)
    \/ AttemptStart(0)
    \/ AttemptReturn(0)
    \/ Emit(0)

SpecStop == InitStop /\ [][NextStop]_vars

\* C21: Stop never fails, whenever it is called: before Run, at any step of
\* Run, after Run returned. It changes nothing but the run scope, and a call
\* made when no run is under way or when the run's scope is cancelled
\* already changes nothing at all: any number of calls has the effect of one.
StopIdempotent ==
    [][stops' # stops =>
          /\ ~panicked'
          /\ UNCHANGED <<poolVars, chanVars, cancel, runnerVars, workers, invoked,
                         rrVars, deques, prioVars, clientVars>>
          /\ (ctx # "active") => UNCHANGED <<ctx, cancelSeen, cancelledInRun>>
          /\ (ctx = "active") => ctx' = "canceled"]_vars

\* Stop was called before Run, during the run and again after the run was
\* cancelled.
StopIdempotentCase ==
    /\ stops >= 3
    /\ ctx = "canceled"
    /\ pc = "returned"
    /\ ret.err = CtxErr("canceled")

----------------------------------------------------------------------------
(* A program that calls GetMetrics while the pool runs *)

\* GetMetrics: wp.metrics.mu.RLock(). No writer of the record takes
\* metrics.mu, so the lock is always free for a reader.
GetMetricsLock ==
    /\ ~panicked
    /\ getter.pc \in {"idle", "returned"}
    /\ getter' = Getter("locked", metrics, ZeroMetrics)
    /\ UNCHANGED <<poolVars, chanVars, ctxVars, runnerVars, workers, panicked, invoked,
                   rrVars, deques, prioVars, owner, thieves, delivered, popped, caller, adaptive>>

\* GetMetrics: the load of wp.metrics.TotalJobs into the returned value.
GetMetricsTotalJobs ==
    /\ ~panicked
    /\ getter.pc = "locked"
    /\ getter' = [getter EXCEPT !.pc = "total",
                                !.snap.TotalJobs = metrics.TotalJobs]
    /\ UNCHANGED <<poolVars, chanVars, ctxVars, runnerVars, workers, panicked, invoked,
                   rrVars, deques, prioVars, owner, thieves, delivered, popped, caller, adaptive>>

\* GetMetrics: the load of wp.metrics.ProcessedJobs.
GetMetricsProcessedJobs ==
    /\ ~panicked
    /\ getter.pc = "total"
    /\ getter' = [getter EXCEPT !.pc = "processed",
                                !.snap.ProcessedJobs = metrics.ProcessedJobs]
    /\ UNCHANGED <<poolVars, chanVars, ctxVars, runnerVars, workers, panicked, invoked,
                   rrVars, deques, prioVars, owner, thieves, delivered, popped, caller, adaptive>>

\* GetMetrics: the load of wp.metrics.FailedJobs (and of the fields after
\* it); the deferred RUnlock; return.
GetMetricsReturn ==
    /\ ~panicked
    /\ getter.pc = "processed"
    /\ getter' = [getter EXCEPT !.pc = "returned",
                                !.snap.FailedJobs = metrics.FailedJobs]
    /\ UNCHANGED <<poolVars, chanVars, ctxVars, runnerVars, workers, panicked, invoked,
                   rrVars, deques, prioVars, owner, thieves, delivered, popped, caller, adaptive>>

\* Run's next step writes wp.metrics: the collection loop's ProcessedJobs++
\* or FailedJobs++, made without holding metrics.mu.
RunWritesMetrics == pc = "collect" /\ results # << >> /\ ~CollectSees(ctx)

NextMetrics ==
    \/ NextRR
    \/ GetMetricsLock
    \/ GetMetricsTotalJobs
    \/ GetMetricsProcessedJobs
    \/ GetMetricsReturn

SpecMetrics == InitRR /\ [][NextMetrics]_vars

\* C22: GetMetrics may run concurrently with Run at any step: while it holds
\* the metrics lock and reads, Run makes no write to the record, and what it
\* returns is the record as it was when the lock was taken.
GetMetricsExcluded ==
    /\ ~(getter.pc \in {"locked", "total", "processed"} /\ RunWritesMetrics)
    /\ getter.pc = "returned" => getter.snap = getter.at

----------------------------------------------------------------------------
(* A program whose goroutines each add one job before Run *)

\* The job goroutine a adds: the odd ones leave Created unset, the even ones
\* supply it.
AgentJob(a) == Job(a, 0, 0, IF a % 2 = 0 THEN a ELSE 0)

\* Goroutine a, which has not added its job yet, calls AddJob; wp.mu makes
\* the call one step.
AgentAddJob(a) ==
    /\ \A i \in DOMAIN added : added[i] # a
    /\ AddJob(AgentJob(a))

InitAgents == InitPool(Config(1, 1, RoundRobin, 0))

NextAgents == \E a \in 1..MaxAgents : AgentAddJob(a)

SpecAgents == InitAgents /\ [][NextAgents]_vars

\* C23: when K goroutines each call AddJob once on the same pool before Run,
\* under every interleaving every job added so far is in the job list once
\* and total_jobs is their number; when all K have returned the list holds
\* the K jobs and total_jobs = K.
ConcurrentAddJob ==
    /\ [i \in DOMAIN jobs |-> jobs[i].id] = added
    /\ \A a \in 1..MaxAgents : Cardinality({i \in DOMAIN added : added[i] = a}) <= 1
    /\ metrics.TotalJobs = Len(added)
    /\ Len(jobs) = Len(added)

\* All the goroutines have returned from AddJob, the last-numbered one first.
ConcurrentAddJobCase ==
    /\ Len(added) = MaxAgents
    /\ added[1] = MaxAgents
    /\ metrics.TotalJobs = MaxAgents
    /\ {jobs[i].id : i \in DOMAIN jobs} = 1..MaxAgents

----------------------------------------------------------------------------
(* A program that runs the pool under any strategy value *)

ConfigsSelect ==
    {Config(1, 1, st, 0) : st \in (RoundRobin - MaxBelow)..(PriorityBased + MaxBelow)}

InitSelect == \E c \in ConfigsSelect : InitPool(c)

SpecSelect == InitSelect /\ [][NextStop]_vars

\* The strategies whose run method has set up its queues or workers in the
\* current run: job channels, deques, the dispatcher; a chunked run has
\* workers and none of these.
StrategiesStarted ==
    {st \in {RoundRobin} : inbox # None}
        \cup {st \in {WorkStealing} : deques # None}
        \cup {st \in {PriorityBased} : dispatcher # "none"}
        \cup {st \in {Chunked} : /\ workers # None
                                 /\ inbox = None /\ deques = None /\ dispatcher = "none"}

\* C24: Run hands the batch to exactly the strategy config.strategy names,
\* and to round-robin for every value outside the four known ones, as does
\* the strategy factory; the strategy is not changed during a run.
StrategySelection ==
    LET named == IF given.Strategy \in {0, 1, 2, 3} THEN given.Strategy ELSE 0
    IN  /\ config.Strategy = given.Strategy
        /\ CreateStrategy(given.Strategy) = named
        /\ pc = "idle" => StrategiesStarted = {}
        /\ pc \notin {"idle", "strategy"} => StrategiesStarted = {named}

\* A run under a strategy value outside the known ones has returned its
\* Results.
StrategySelectionCase ==
    /\ given.Strategy \notin {0, 1, 2, 3}
    /\ Returned
    /\ Len(ret.results) >= 1
    /\ StrategiesStarted = {RoundRobin}

----------------------------------------------------------------------------
(* A program that loads jobs with and without a Created value and runs them *)

\* AddJobs with a batch of fresh jobs, those of even id with Created
\* supplied: the first load of the pool, or a new load after Run returned.
AddJobsCreated ==
    /\ jobs = << >> \/ (pc = "returned" /\ nextId <= MaxCancelJobs)
    /\ \E n \in 1..MaxCancelJobs : AddJobs([i \in 1..n |-> AgentJob(nextId + i - 1)])

\* AddJob with a fresh job, before Run is called or after it returned.
AddJobCreated ==
    /\ pc \in {"idle", "returned"}
    /\ Len(jobs) < MaxCancelJobs
    /\ AddJob(AgentJob(nextId))

NextCreated ==
    \/ WithProcessor
    \/ AddJobsCreated
    \/ AddJobCreated
    \/ Run
    \/ Stop
    \/ RunStep
    \/ PrioSend
    \/ PrioClose
    \/ WorkerRecv(0)
    \/ WorkerRecvShared(0)
    \/ WorkerScope(0)
    \/ WorkerNext(0)
    \/ WorkerTop(0)
    \/ WorkerSteal(0)
    \/ WorkerScan(0)
    \/ AttemptStart(0)
    \/ AttemptReturn(0)
    \/ Emit(0)

SpecCreated == InitStop /\ [][NextCreated]_vars

\* The jobs in the pool's list, in a job channel, in a live slot of a deque,
\* in the priority queue, in the shared work queue or in a worker's hands.
HeldJobs ==
    {jobs[i] : i \in DOMAIN jobs}
        \cup UNION {{inbox[w][i] : i \in DOMAIN inbox[w]} : w \in DOMAIN inbox}
        \cup UNION {{deques[w].buffer[(i % Len(deques[w].buffer)) + 1] :
                        i \in deques[w].top..(deques[w].bottom - 1)} : w \in DOMAIN deques}
        \cup {pq[i] : i \in DOMAIN pq}
        \cup {workQueue[i] : i \in DOMAIN workQueue}
        \cup {workers[w].job : w \in {v \in DOMAIN workers : workers[v].job.id # 0}}

\* C25: every job the pool holds, in its list or in any inbox, deque, heap
\* or shared channel, has a non-zero created; a created the caller supplied
\* is the one the job carries.
CreatedStamped ==
    \A j \in HeldJobs :
        /\ j.created # 0
        /\ AgentJob(j.id).created # 0 => j.created = AgentJob(j.id).created

\* A job added without a created and a job added with one, at a time other
\* than the one it carries, are loaded and a worker holds the second.
CreatedStampedCase ==
    /\ Len(jobs) = 2
    /\ jobs[1].created = 1
    /\ jobs[2].created = 2
    /\ jobs[2].created # now - 1
    /\ 0 \in DOMAIN workers
    /\ workers[0].job = jobs[2]

----------------------------------------------------------------------------
(* A program that runs the work-stealing strategy to its end, never cancelled *)

ConfigsSteal == {Config(nw, 1, WorkStealing, 0) : nw \in 1..MaxCancelWorkers}

InitSteal == \E c \in ConfigsSteal : InitPool(c)

AddJobsSteal ==
    /\ jobs = << >>
    /\ \E n \in {1, MaxCancelJobs, OverflowJobs} : AddJobs(Batch(n))

RunStepWS ==
    \/ runWorkStealing
    \/ JoinAndClose
    \/ Collect
    \/ RunReturn

WorkerStepWS(w) ==
    \/ WorkerTop(w)
    \/ WorkerSteal(w)
    \/ WorkerStealLoad(w)
    \/ WorkerStealStore(w)
    \/ WorkerScan(w)
    \/ AttemptStart(w)
    \/ AttemptReturn(w)
    \/ Emit(w)

NextSteal ==
    \/ WithProcessor
    \/ AddJobsSteal
    \/ Run
    \/ RunStepWS
    \/ \E w \in 0..(MaxCancelWorkers - 1) : WorkerStepWS(w)

\* The scheduler runs Run and every worker goroutine that can take a step.
SpecSteal ==
    /\ InitSteal
    /\ [][NextSteal]_vars
    /\ WF_vars(RunStepWS)
    /\ \A w \in 0..(MaxCancelWorkers - 1) : WF_vars(WorkerStepWS(w))

\* C26: in a work-stealing run that is never cancelled every worker
\* eventually exits; a worker exits only with every deque empty; and when
\* the results channel is closed no deque holds a job and every job of the
\* batch was executed.
WorkStealingTermination ==
    /\ (pc = "wait") ~> (pc = "wait" /\ AllWorkersExited)
    /\ [][\A w \in DOMAIN workers \cap DOMAIN workers' :
             (workers[w].pc # "done" /\ workers'[w].pc = "done")
                 => \A v \in DOMAIN deques : IsEmpty(deques[v])]_vars
    /\ [](resultsClosed >= 1 =>
             /\ \A v \in DOMAIN deques : Size(deques[v]) <= 0
             /\ \A i \in DOMAIN jobs : BagIn(jobs[i].id, invoked))

----------------------------------------------------------------------------
(* Further claims on the deque *)

\* C27: whenever no deque operation is in progress, top <= bottom, Size() is
\* bottom - top, is not negative and is the number of jobs pushed and not yet
\* delivered, and no slot between top and bottom holds a delivered job.
DequeIndexInvariant ==
    (thieves # None /\ \A t \in DOMAIN thieves : thieves[t].pc = "idle") =>
        /\ deques[0].top <= deques[0].bottom
        /\ Size(deques[0]) = deques[0].bottom - deques[0].top
        /\ Size(deques[0]) >= 0
        /\ Size(deques[0]) = owner.pushed - BagCardinality(delivered)
        /\ \A i \in deques[0].top..(deques[0].bottom - 1) :
              ~BagIn(deques[0].buffer[(i % Len(deques[0].buffer)) + 1].id, delivered)

----------------------------------------------------------------------------
(* A deque and one caller that calls Push, Pop and Steal one after another *)

\* Push of a fresh job.
SeqPush ==
    /\ caller.pops = 0 /\ caller.steals = 0
    /\ owner.pushed < MaxPush
    /\ LET job == Job(owner.pushed + 1, 0, 0, 0)
       IN  /\ deques' = [deques EXCEPT ![0] = DequePush(@, job)]
           /\ caller' = [caller EXCEPT !.op = "push", !.job = job, !.ok = TRUE,
                                       !.ref = Append(@, job), !.want = job,
                                       !.cap = Len(deques[0].buffer)]
    /\ owner' = [owner EXCEPT !.pushed = @ + 1]
    /\ UNCHANGED <<poolVars, chanVars, ctxVars, runnerVars, workers, panicked, invoked,
                   rrVars, prioVars, thieves, delivered, popped, getter, adaptive>>

\* Pop; the unbounded deque gives up its last job.
SeqPop ==
    /\ caller.pops = 0 /\ caller.steals = 0
    /\ LET r == DequePop(deques[0])
           n == Len(caller.ref)
       IN  /\ deques' = [deques EXCEPT ![0] = r.deque]
           /\ delivered' = IF r.ok THEN delivered (+) SetToBag({r.job.id}) ELSE delivered
           /\ caller' = [caller EXCEPT !.op = "pop", !.job = r.job, !.ok = r.ok,
                                       !.ref = IF n = 0 THEN @ ELSE SubSeq(@, 1, n - 1),
                                       !.want = IF n = 0 THEN ZeroJob ELSE caller.ref[n],
                                       !.cap = Len(deques[0].buffer)]
    /\ UNCHANGED <<poolVars, chanVars, ctxVars, runnerVars, workers, panicked, invoked,
                   rrVars, prioVars, owner, thieves, popped, getter, adaptive>>

\* Steal; the unbounded deque gives up its first job.
SeqSteal ==
    /\ caller.pops = 0 /\ caller.steals = 0
    /\ LET r == DequeSteal(deques[0])
           n == Len(caller.ref)
       IN  /\ deques' = [deques EXCEPT ![0] = r.deque]
           /\ delivered' = IF r.ok THEN delivered (+) SetToBag({r.job.id}) ELSE delivered
           /\ caller' = [caller EXCEPT !.op = "steal", !.job = r.job, !.ok = r.ok,
                                       !.ref = IF n = 0 THEN @ ELSE SubSeq(@, 2, n),
                                       !.want = IF n = 0 THEN ZeroJob ELSE caller.ref[1],
                                       !.cap = Len(deques[0].buffer)]
    /\ UNCHANGED <<poolVars, chanVars, ctxVars, runnerVars, workers, panicked, invoked,
                   rrVars, prioVars, owner, thieves, popped, getter, adaptive>>

\* A program that builds one deque of any initial capacity, and one thief.
InitSeq ==
    /\ NewPool(Config(1, 0, RoundRobin, 0))
    /\ \E c \in 1..MaxDequeSize : deques = [d \in {0} |-> NewWorkStealingDeque(c)]
    /\ thieves = [t \in {1} |-> Thief("idle")]

NextSeq ==
    \/ SeqPush
    \/ SeqPop
    \/ SeqSteal

SpecSeq == InitSeq /\ [][NextSeq]_vars

\* The ids of the jobs pushed and not yet returned by a Pop or a Steal.
Undelivered == {id \in 1..owner.pushed : ~BagIn(id, delivered)}

\* C28: called one after another, Pop returns the most recently pushed job
\* not yet delivered, Steal the earliest pushed one, and each returns empty
\* exactly when no undelivered job remains. Jobs are numbered in push order.
EndDiscipline ==
    caller.op \in {"pop", "steal"} =>
        /\ ~caller.ok => (Undelivered = {} /\ caller.job = ZeroJob)
        /\ caller.ok =>
              /\ caller.job.id \in 1..owner.pushed
              /\ CopiesIn(caller.job.id, delivered) = 1
              /\ caller.op = "pop" => \A id \in Undelivered : id < caller.job.id
              /\ caller.op = "steal" => \A id \in Undelivered : id > caller.job.id

\* Of three jobs pushed, Steal has returned the first and Pop, after it, the
\* third; the second is still in the deque.
EndDisciplineCase ==
    /\ owner.pushed = 3
    /\ Undelivered = {2}
    /\ caller.op = "pop"
    /\ caller.ok
    /\ caller.job.id = 3

\* The jobs in the slots from top to bottom - 1, in that order.
LiveJobs(d) ==
    [i \in 1..Size(d) |-> d.buffer[((d.top + i - 1) % Len(d.buffer)) + 1]]

\* C29: whatever the initial capacity, every Pop and Steal returns what an
\* unbounded deque returns after the same calls and the deque holds the same
\* jobs in the same order; Push on a full ring doubles the capacity, any other
\* call leaves it as it is, so that the capacity never decreases.
GrowthTransparent ==
    caller.op # "none" =>
        /\ caller.job = caller.want
        /\ caller.op \in {"pop", "steal"} => (caller.ok <=> caller.want # ZeroJob)
        /\ Size(deques[0]) = Len(caller.ref)
        /\ LiveJobs(deques[0]) = caller.ref
        /\ Len(deques[0].buffer) >= caller.cap
        /\ Len(deques[0].buffer) =
              IF caller.op = "push" /\ Len(caller.ref) - 1 >= caller.cap
              THEN 2 * caller.cap
              ELSE caller.cap

\* Push has doubled a full ring of capacity 1 whose top had advanced, and the
\* deque holds the second and the third job pushed.
GrowthTransparentCase ==
    /\ caller.op = "push"
    /\ caller.cap = 1
    /\ Len(deques[0].buffer) = 2
    /\ deques[0].top = 1
    /\ owner.pushed = 3
    /\ Len(caller.ref) = 2

----------------------------------------------------------------------------
(* The owner's Pop and one thief's Steal, called together on the last job *)

\* The two calls of the race have begun, or the deque holds exactly one job.
RaceOpen == caller.pops + caller.steals >= 1 \/ Size(deques[0]) = 1

\* Pop that does not wait for the thief inside Steal to leave.
RacePopUnlocked ==
    /\ RaceOpen
    /\ caller.pops = 0
    /\ LET r == DequePop(deques[0])
       IN  /\ deques' = [deques EXCEPT ![0] = r.deque]
           /\ delivered' = IF r.ok THEN delivered (+) SetToBag({r.job.id}) ELSE delivered
           /\ caller' = [caller EXCEPT !.op = "pop", !.job = r.job, !.ok = r.ok, !.pops = 1]
    /\ UNCHANGED <<poolVars, chanVars, ctxVars, runnerVars, workers, panicked, invoked,
                   rrVars, prioVars, owner, thieves, popped, getter, adaptive>>

\* The owner's Pop: d.mu.Lock() waits until no thief holds the read lock.
RacePop ==
    /\ RaceOpen
    /\ caller.pops = 0
    /\ deques[0].readers = 0
    /\ LET r == DequePop(deques[0])
       IN  /\ deques' = [deques EXCEPT ![0] = r.deque]
           /\ delivered' = IF r.ok THEN delivered (+) SetToBag({r.job.id}) ELSE delivered
           /\ caller' = [caller EXCEPT !.op = "pop", !.job = r.job, !.ok = r.ok, !.pops = 1]
    /\ UNCHANGED <<poolVars, chanVars, ctxVars, runnerVars, workers, panicked, invoked,
                   rrVars, prioVars, owner, thieves, popped, getter, adaptive>>

\* The thief's Steal: RLock and the reads; on an empty deque it returns at
\* once, else it goes on to `d.top++` with the job it will return.
RaceSteal ==
    /\ RaceOpen
    /\ caller.steals = 0
    /\ thieves[1].pc = "idle"
    /\ caller' = [caller EXCEPT !.steals = 1,
                                !.stolen = DequeSteal(deques[0]).job,
                                !.stolenOk = DequeSteal(deques[0]).ok]
    /\ IF StealEmpty(deques[0])
       THEN UNCHANGED <<deques, thieves>>
       ELSE /\ deques' = [deques EXCEPT ![0].readers = @ + 1]
            /\ thieves' = [thieves EXCEPT ![1] = [pc |-> "load", job |-> StealJob(deques[0]),
                                                  tmp |-> 0]]
    /\ UNCHANGED <<poolVars, chanVars, ctxVars, runnerVars, workers, panicked, invoked,
                   rrVars, prioVars, owner, delivered, popped, getter, adaptive>>

NextRace ==
    \/ SeqPush
    \/ SeqPop
    \/ SeqSteal
    \/ RacePop
    \/ RaceSteal
    \/ ThiefLoad(1)
    \/ ThiefStore(1)

SpecRace == InitSeq /\ [][NextRace]_vars

\* Both calls of the race have returned.
RaceOver == caller.pops = 1 /\ caller.steals = 1 /\ thieves[1].pc = "idle"

\* C30: when Pop and Steal are called together on a deque holding one job,
\* exactly one of them returns that job, the other returns empty, and the
\* deque is left empty with top = bottom.
LastElementRace ==
    RaceOver =>
        /\ caller.ok # caller.stolenOk
        /\ caller.ok => (caller.job = caller.ref[1] /\ caller.stolen = ZeroJob)
        /\ caller.stolenOk => (caller.stolen = caller.ref[1] /\ caller.job = ZeroJob)
        /\ CopiesIn(caller.ref[1].id, delivered) = 1
        /\ deques[0].top = deques[0].bottom
        /\ IsEmpty(deques[0])

\* The race is over: the thief got the job, the second one pushed, and Pop
\* returned empty.
LastElementRaceCase ==
    /\ RaceOver
    /\ caller.stolenOk
    /\ ~caller.ok
    /\ caller.stolen.id = 2
    /\ deques[0].top = 2

----------------------------------------------------------------------------
(* The strategies package: RoundRobinStrategy.Execute and the common processJob,
   called with a context the caller can cancel *)

\* The caller makes a context and the jobs and calls Execute(ctx, config, jobs,
\* processor, results); Execute's first loop makes the job channels and
\* starts the workers.
PkgExecute ==
    /\ ~panicked
    /\ pc = "idle"
    /\ \E n \in 1..MaxCancelJobs : jobs' = Batch(n)
    /\ ctx' = "active"
    /\ cancel' = TRUE
    /\ inbox' = [w \in WorkerIds |-> << >>]
    /\ inboxClosed' = FALSE
    /\ workers' = [w \in WorkerIds |-> Worker("recv")]
    /\ dispatched' = 0
    /\ runs' = runs + 1
    /\ pc' = "dispatch"
    /\ UNCHANGED <<config, given, processor, jobsCap, now, nextId, added, chanVars,
                   cancelSeen, cancelledInRun, stops, collected, ret, metrics, panicked,
                   invoked, deques, prioVars, clientVars>>

\* Execute's dispatch loop, case <-ctx.Done(): return ctx.Err().
PkgDispatchCancelled ==
    /\ ~panicked
    /\ pc = "dispatch"
    /\ dispatched < NumJobs
    /\ Done(ctx)
    /\ ret' = [results |-> << >>, err |-> CtxErr(ctx)]
    /\ pc' = "returned"
    /\ UNCHANGED <<poolVars, chanVars, ctxVars, dispatched, collected, runs, metrics,
                   workers, panicked, invoked, rrVars, deques, prioVars, clientVars>>

\* wg.Wait(); close(results); return ctx.Err() or nil.
PkgJoinAndClose ==
    /\ ~panicked
    /\ pc = "wait"
    /\ AllWorkersExited
    /\ resultsClosed' = resultsClosed + 1
    /\ ret' = [results |-> << >>, err |-> CtxErr(ctx)]
    /\ pc' = "returned"
    /\ UNCHANGED <<poolVars, results, emitted, ctxVars, dispatched, collected, runs,
                   metrics, workers, panicked, invoked, rrVars, deques, prioVars,
                   clientVars>>

\* RoundRobinStrategy.worker: one iteration of `for job := range jobs` up to
\* the processJob call, or the end of the range. The worker has no context.
PkgWorkerRecv(w) ==
    /\ ~panicked
    /\ w \in DOMAIN workers
    /\ workers[w].pc = "recv"
    /\ IF inbox[w] # << >>
       THEN /\ inbox' = [inbox EXCEPT ![w] = Tail(@)]
            /\ workers' = [workers EXCEPT ![w] = EnterProcessJob(@, Head(inbox[w]))]
       ELSE /\ inboxClosed
            /\ workers' = [workers EXCEPT ![w].pc = "done"]
            /\ UNCHANGED inbox
    /\ UNCHANGED <<poolVars, chanVars, ctxVars, runnerVars, panicked, invoked,
                   inboxClosed, deques, prioVars, clientVars>>

\* The common processJob, one iteration of the retry loop up to the processor
\* call: jobCtx is context.Background(), with config.WorkerTimeout if set.
PkgAttemptStart(w) ==
    /\ ~panicked
    /\ w \in DOMAIN workers
    /\ workers[w].pc = "attempt"
    /\ invoked' = invoked (+) SetToBag({workers[w].job.id})
    /\ workers' = [workers EXCEPT ![w].pc = "inflight",
                      ![w].scope = Scope(FALSE, config.WorkerTimeout),
                      ![w].err = ProcessorFails(workers[w].job),
                      ![w].data = IF ProcessorFails(workers[w].job)
                                  THEN 0 ELSE workers[w].job.id]
    /\ UNCHANGED <<poolVars, chanVars, ctxVars, runnerVars, panicked, rrVars, deques,
                   prioVars, clientVars>>

\* The common processJob: the processor returns; `break` on err == nil leaves
\* the for loop; else attempt++.
PkgAttemptReturn(w) ==
    /\ ~panicked
    /\ w \in DOMAIN workers
    /\ workers[w].pc = "inflight"
    /\ workers' = [workers EXCEPT ![w].pc = IF workers[w].err
                                            THEN RetryHead(workers[w].attempt + 1)
                                            ELSE "send",
                                  ![w].attempt = @ + 1]
    /\ UNCHANGED <<poolVars, chanVars, ctxVars, runnerVars, panicked, invoked, rrVars,
                   deques, prioVars, clientVars>>

ConfigsPkg ==
    {Config(nw, 1, RoundRobin, mr) : nw \in 1..MaxCancelWorkers, mr \in 0..MaxRetriesCfg}

InitPkg == \E c \in ConfigsPkg : InitPool(c)

\* Stop stands for the caller's cancel().
NextPkg ==
    \/ PkgExecute
    \/ Stop
    \/ DispatchSend
    \/ PkgDispatchCancelled
    \/ CloseInboxes
    \/ PkgJoinAndClose
    \/ \E w \in 0..(MaxCancelWorkers - 1) : PkgWorkerRecv(w)
    \/ \E w \in 0..(MaxCancelWorkers - 1) : PkgAttemptStart(w)
    \/ \E w \in 0..(MaxCancelWorkers - 1) : PkgAttemptReturn(w)
    \/ \E w \in 0..(MaxCancelWorkers - 1) : Emit(w)

SpecPkg == InitPkg /\ [][NextPkg]_vars

\* C31: once the run scope is cancelled no worker begins executing a job it
\* had not already started: the processor is invoked for no job that it had
\* not been invoked for before the cancellation.
NoNewJobAfterCancel ==
    [][Done(ctx) =>
          \A i \in DOMAIN jobs :
              CopiesIn(jobs[i].id, invoked') > CopiesIn(jobs[i].id, invoked)
                  => CopiesIn(jobs[i].id, invoked) >= 1]_vars

\* C32: a worker that is at the start of an attempt, the first or a retry,
\* with the run scope cancelled leaves processJob: the processor is not
\* invoked, no Result is emitted and the worker drops the job.
NoAttemptAfterCancel ==
    [][\A w \in DOMAIN workers \cap DOMAIN workers' :
          (workers[w].pc = "attempt" /\ Done(ctx) /\ workers'[w] # workers[w])
              => /\ invoked' = invoked
                 /\ emitted' = emitted
                 /\ workers'[w].job = ZeroJob]_vars

\* C33: when Run has returned, with results or with an error, every worker
\* and the dispatcher it started have exited.
NoWorkerOutlivesRun ==
    Returned =>
        /\ \A w \in DOMAIN workers : workers[w].pc = "done"
        /\ dispatcher # "run"

----------------------------------------------------------------------------
(* A program that runs the pool under any MaxRetries value *)

ConfigsRetry ==
    {Config(1, 1, st, mr) : st \in {RoundRobin, Chunked, WorkStealing, PriorityBased},
                            mr \in (0 - MaxBelow)..MaxRetriesCfg}

InitRetry == \E c \in ConfigsRetry : InitPool(c)

SpecRetry == InitRetry /\ [][NextStop]_vars

\* The jobs of the batch the processor has returned successfully for.
Succeeded == {i \in DOMAIN jobs : CopiesIn(jobs[i].id, invoked) > jobs[i].k}

\* C34: whatever MaxRetries is, negative values included, every Result
\* emitted for a job was preceded by a processor invocation on that job, and
\* ProcessedJobs counts no job the processor has not succeeded on.
NoManufacturedResults ==
    /\ \A id \in BagToSet(emitted) : CopiesIn(id, invoked) >= 1
    /\ metrics.ProcessedJobs <= Cardinality(Succeeded)

\* ---------------------------------------------------------------------------
\* The two per-job executors side by side
\* ---------------------------------------------------------------------------

\* The strategies package's processJob run to its send, as a function of the
\* job and of config.MaxRetries, with no worker timeout: n counts the processor
\* invocations made so far, the processor fails its first job.k invocations,
\* and `break` stands directly in the for loop, so a success leaves the loop.
RECURSIVE PkgRetryLoop(_, _, _, _)
PkgRetryLoop(job, maxRetries, attempt, last) ==
    IF attempt <= maxRetries
    THEN LET fails == last.invocations < job.k
             this == [invocations |-> last.invocations + 1,
                      JobID |-> job.id,
                      Data |-> IF fails THEN 0 ELSE job.id,
                      Error |-> fails]
         IN  IF ~fails THEN this ELSE PkgRetryLoop(job, maxRetries, attempt + 1, this)
    ELSE last

PkgProcessJob(job, maxRetries) ==
    PkgRetryLoop(job, maxRetries, 0,
                 [invocations |-> 0, JobID |-> job.id, Data |-> 0, Error |-> FALSE])

\* The package's workers agree with PkgProcessJob when they reach the send.
PkgProcessJobAgrees ==
    \A w \in DOMAIN workers :
        workers[w].pc = "send" =>
            LET p == PkgProcessJob(workers[w].job, config.MaxRetries)
            IN  /\ CopiesIn(workers[w].job.id, invoked) = p.invocations
                /\ workers[w].data = p.Data
                /\ workers[w].err = p.Error

\* A worker of the pool stands at the send of a job's Result in a first run
\* that nobody cancelled and whose deadline has not passed.
PoolAtSend(w) ==
    /\ workers[w].pc = "send"
    /\ config.MaxRetries >= 0
    /\ runs = 1
    /\ stops = 0
    /\ ctx = "active"

\* C35: for the same job, max_retries >= 0 and the same processor outcomes,
\* with no cancellation and no worker timeout, WorkerPool.processJob and the
\* strategies package's processJob invoke the processor the same number of
\* times and send a Result with the same job id, data and error.
ExecutorsEquivalent ==
    \A w \in DOMAIN workers :
        PoolAtSend(w) =>
            LET p == PkgProcessJob(workers[w].job, config.MaxRetries)
            IN  /\ CopiesIn(workers[w].job.id, invoked) = p.invocations
                /\ workers[w].job.id = p.JobID
                /\ workers[w].data = p.Data
                /\ workers[w].err = p.Error

\* ---------------------------------------------------------------------------
\* Round-robin inbox sizing
\* ---------------------------------------------------------------------------

\* The jobs the dispatch loop hands to worker w: the indices i of the batch
\* with i % NumWorkers = w.
ShareOf(w) == {i \in 0..(NumJobs - 1) : workerIndex(i) = w}

\* C36: for every N >= 1 and L >= 1 each inbox's capacity,
\* max(1, floor(L/N) + 1), is at least the number of jobs dispatched to its
\* worker, so the dispatch loop's next send finds a free place even when no
\* worker has received anything.
InboxSizing ==
    pc = "dispatch" =>
        /\ \A w \in WorkerIds : InboxCap >= Cardinality(ShareOf(w))
        /\ dispatched < NumJobs => Len(inbox[workerIndex(dispatched)]) < InboxCap

\* The dispatch loop has sent a worker its whole share, of more than one job,
\* before any worker received a job.
InboxSizingCase ==
    /\ pc = "dispatch"
    /\ dispatched = NumJobs
    /\ \E w \in WorkerIds : /\ Cardinality(ShareOf(w)) >= 2
                            /\ Len(inbox[w]) = Cardinality(ShareOf(w))
                            /\ NumWorkers >= 2
    /\ \A w \in WorkerIds : workers[w].pc = "recv"
    /\ invoked = EmptyBag

\* ---------------------------------------------------------------------------
\* A program that runs round-robin and chunked pools of several workers once
\* ---------------------------------------------------------------------------

ConfigsOrder ==
    {Config(nw, 1, st, mr) : nw \in 1..MaxRRWorkers, st \in {RoundRobin, Chunked},
                             mr \in 0..MaxRetriesCfg}

InitOrder == \E c \in ConfigsOrder : InitPool(c)

NextOrder ==
    \/ WithProcessor
    \/ AddJobsRR
    \/ Run
    \/ Stop
    \/ runRoundRobin
    \/ DispatchSend
    \/ DispatchCancelled
    \/ CloseInboxes
    \/ runChunked
    \/ JoinAndClose
    \/ Collect
    \/ RunReturn
    \/ \E w \in 0..(MaxRRWorkers - 1) :
          \/ WorkerRecv(w)
          \/ WorkerScope(w)
          \/ WorkerNext(w)
          \/ AttemptStart(w)
          \/ AttemptReturn(w)
          \/ Emit(w)

SpecOrder == InitOrder /\ [][NextOrder]_vars

\* The batch indices assigned to worker w: its round-robin share, or its slice.
AssignedTo(w) ==
    IF StrategyOf(config.Strategy) = RoundRobin THEN ShareOf(w) ELSE SliceOf(w)

\* The index in the batch of the job with this id.
IndexOf(id) == CHOOSE i \in 0..(NumJobs - 1) : jobs[i + 1].id = id

\* Worker w takes up a job in this step: worker / workerWithSlice call
\* processJob on it.
TakesUp(w) ==
    /\ workers[w].pc \in {"scope", "next"}
    /\ workers'[w].pc \in {"attempt", "send"}

\* C37: under round-robin and under chunked a worker starts the jobs assigned
\* to it in increasing order of their index in the batch, and starts a job
\* only after it has emitted the Result of the one before.
PerWorkerOrder ==
    [][\A w \in DOMAIN workers \cap DOMAIN workers' :
          TakesUp(w) =>
              LET j == IndexOf(workers'[w].job.id)
              IN  /\ j \in AssignedTo(w)
                  /\ \A i \in AssignedTo(w) :
                        /\ i < j => /\ CopiesIn(jobs[i + 1].id, invoked) >= 1
                                    /\ CopiesIn(jobs[i + 1].id, emitted) >= 1
                        /\ i >= j => /\ CopiesIn(jobs[i + 1].id, invoked) = 0
                                     /\ CopiesIn(jobs[i + 1].id, emitted) = 0]_vars

\* A worker of a pool of two is at work on the second job assigned to it, the
\* first one's Result emitted.
PerWorkerOrderCase ==
    /\ NumWorkers = 2
    /\ \E w \in DOMAIN workers :
          /\ workers[w].pc = "inflight"
          /\ \E i \in AssignedTo(w) :
                /\ i < IndexOf(workers[w].job.id)
                /\ CopiesIn(jobs[i + 1].id, emitted) >= 1

\* ---------------------------------------------------------------------------
\* A program that runs a priority pool once, with a caller of Stop
\* ---------------------------------------------------------------------------

ConfigsDispatch == {Config(nw, 1, PriorityBased, 0) : nw \in 1..MaxCancelWorkers}

InitDispatch == \E c \in ConfigsDispatch : InitPool(c)

\* Run up to its return, for a priority run.
RunStepPrio ==
    \/ runPriorityBased
    \/ JoinAndClose
    \/ Collect
    \/ RunReturn

WorkerStepPrio(w) ==
    \/ WorkerRecvShared(w)
    \/ WorkerScope(w)
    \/ AttemptStart(w)
    \/ AttemptReturn(w)
    \/ Emit(w)

NextDispatch ==
    \/ WithProcessor
    \/ AddJobsOnce
    \/ Run
    \/ Stop
    \/ RunStepPrio
    \/ DispatcherStep
    \/ \E w \in 0..(MaxCancelWorkers - 1) : WorkerStepPrio(w)

\* The scheduler runs Run, the dispatcher and every worker whenever they can
\* take a step; the callers of Stop are under no obligation.
SpecDispatch ==
    /\ InitDispatch
    /\ [][NextDispatch]_vars
    /\ WF_vars(RunStepPrio)
    /\ WF_vars(DispatcherStep)
    /\ \A w \in 0..(MaxCancelWorkers - 1) : WF_vars(WorkerStepPrio(w))

\* How many times the job with this id has left the heap towards the workers:
\* it waits in the shared channel, is held by a worker, or has its Result.
TimesSent(id) ==
    Cardinality({i \in DOMAIN workQueue : workQueue[i].id = id})
        + Cardinality({w \in DOMAIN workers : workers[w].job.id = id})
        + CopiesIn(id, emitted)

\* C38, sends: only the dispatcher sends into the shared channel, and what it
\* sends is the job the heap pops.
SendsInPopOrder ==
    Len(workQueue') > Len(workQueue) =>
        /\ dispatcher = "run"
        /\ pq # << >>
        /\ workQueue' = Append(workQueue, PQPop(pq).job)
        /\ pq' = PQPop(pq).items

\* C38, close: the shared channel is closed by the dispatcher as it ends, with
\* the heap empty or the scope cancelled, and stays closed.
ClosesOnce ==
    /\ (workQueueClosed' /\ ~workQueueClosed) =>
           /\ dispatcher = "run" /\ dispatcher' = "done"
           /\ pq = << >> \/ stops >= 1
    /\ (workQueueClosed /\ dispatcher = "done") => workQueueClosed'

\* C38, no cancellation: when the dispatcher has ended every job of the batch
\* has been sent exactly once.
SentExactlyOnce ==
    (dispatcher = "done" /\ stops = 0) =>
        /\ pq = << >>
        /\ \A i \in DOMAIN jobs : TimesSent(jobs[i].id) = 1

MaxClock == 4
MaxCollected == 2

\* &Metrics{} with its time and duration fields; times and durations are in
\* ticks of the clock, the zero time is 0.
ZeroTimedMetrics ==
    [TotalJobs |-> 0, ProcessedJobs |-> 0, FailedJobs |-> 0, StartTime |-> 0,
     EndTime |-> 0, TotalDuration |-> 0, AverageDuration |-> 0]

\* Run's deferred function, called at time t on every return of Run past the
\* two preflight checks: AverageDuration is assigned only when ProcessedJobs
\* is positive.
deferredFinalize(m, t) ==
    LET total == t - m.StartTime
    IN  [m EXCEPT !.EndTime = t,
                  !.TotalDuration = total,
                  !.AverageDuration = IF m.ProcessedJobs > 0
                                      THEN total \div m.ProcessedJobs
                                      ELSE @]

\* A pool after WithProcessor and one AddJobs, its metrics carrying the time
\* fields.
InitDuration ==
    /\ config = NewWithConfig(Config(1, 1, RoundRobin, 0))
    /\ given = Config(1, 1, RoundRobin, 0)
    /\ processor = TRUE
    /\ jobs = [i \in 1..MaxCollected |-> Stamp(JobOf(i), 1)]
    /\ jobsCap = MaxCollected
    /\ now = 2
    /\ nextId = MaxCollected + 1
    /\ added = [i \in 1..MaxCollected |-> i]
    /\ metrics = [ZeroTimedMetrics EXCEPT !.TotalJobs = MaxCollected]
    /\ results = << >>
    /\ resultsClosed = 0
    /\ emitted = EmptyBag
    /\ ctx = "nil"
    /\ cancel = FALSE
    /\ cancelSeen = FALSE
    /\ cancelledInRun = FALSE
    /\ stops = 0
    /\ pc = "idle"
    /\ dispatched = 0
    /\ collected = << >>
    /\ ret = [results |-> << >>, err |-> NoErr]
    /\ runs = 0
    /\ workers = None
    /\ panicked = FALSE
    /\ invoked = EmptyBag
    /\ inbox = None
    /\ inboxClosed = FALSE
    /\ pq = << >>
    /\ workQueue = << >>
    /\ workQueueClosed = FALSE
    /\ dispatcher = "none"
    /\ owner = [pushed |-> 0]
    /\ delivered = EmptyBag
    /\ popped = HeapClient
    /\ getter = Getter("idle", ZeroMetrics, ZeroMetrics)
    /\ caller = NoCall
    /\ adaptive = NewAdaptiveStrategy
    /\ deques = None
    /\ thieves = None

\* Time passes.
Tick ==
    /\ now < MaxClock
    /\ now' = now + 1
    /\ UNCHANGED <<config, given, processor, jobs, jobsCap, nextId, added>>
    /\ UNCHANGED <<chanVars, ctxVars, runnerVars, workers, panicked, invoked, rrVars,
                   deques, prioVars, clientVars>>

\* Run past its preflight checks: wp.metrics.StartTime = time.Now(), the
\* deferred function registered.
RunTimed ==
    /\ pc \in {"idle", "returned"}
    /\ runs < MaxRuns
    /\ metrics' = [metrics EXCEPT !.StartTime = now]
    /\ dispatched' = 0
    /\ runs' = runs + 1
    /\ pc' = "collect"
    /\ UNCHANGED <<poolVars, chanVars, ctxVars, collected, ret, workers, panicked, invoked,
                   rrVars, deques, prioVars, clientVars>>

\* One iteration of Run's collection loop: the Result carries an error or not.
CollectTimed ==
    /\ pc = "collect"
    /\ dispatched < MaxCollected
    /\ \E failed \in BOOLEAN :
          metrics' = IF failed THEN [metrics EXCEPT !.FailedJobs = @ + 1]
                               ELSE [metrics EXCEPT !.ProcessedJobs = @ + 1]
    /\ dispatched' = dispatched + 1
    /\ UNCHANGED <<poolVars, chanVars, ctxVars, pc, collected, ret, runs, workers,
                   panicked, invoked, rrVars, deques, prioVars, clientVars>>

\* Run returns, with the strategy's error, on a cancellation seen by the
\* collection loop or after the loop: the deferred function runs.
ReturnTimed ==
    /\ pc = "collect"
    /\ metrics' = deferredFinalize(metrics, now)
    /\ pc' = "returned"
    /\ UNCHANGED <<poolVars, chanVars, ctxVars, dispatched, collected, ret, runs, workers,
                   panicked, invoked, rrVars, deques, prioVars, clientVars>>

NextDuration ==
    \/ Tick
    \/ RunTimed
    \/ CollectTimed
    \/ ReturnTimed

SpecDuration == InitDuration /\ [][NextDuration]_vars

\* C39: when Run has finished, normally or cancelled, total_duration is
\* end_time - start_time of that run and average_duration is total_duration
\* divided by max(processed_jobs, 1), also when processed_jobs is 0.
AverageDurationFinal ==
    (pc = "returned" /\ runs >= 1) =>
        /\ metrics.TotalDuration = metrics.EndTime - metrics.StartTime
        /\ metrics.AverageDuration
               = metrics.TotalDuration \div max(metrics.ProcessedJobs, 1)

\* ---------------------------------------------------------------------------
\* The adaptive strategy
\* ---------------------------------------------------------------------------

\* Execute is called at most MaxExecutes times, a strategy takes 1..MaxDuration
\* seconds over a batch, the clock runs up to MaxAdaptiveClock, the pool has
\* AdaptiveWorkers workers; SetSwitchThreshold is called with 0.2 or with
\* OtherThresholdPct hundredths.
MaxExecutes == 3
MaxDuration == 2
MaxAdaptiveClock == 7
AdaptiveWorkers == 1
OtherThresholdPct == 50

\* 5*time.Second
SwitchGuard == 5
\* alpha := 0.3, in hundredths
AlphaPct == 30
\* job.Priority > 5
HighPriority == 5
\* Performances (jobs per second) are held in thousandths, which is exact for
\* the batches, durations and number of Execute calls of this program.
PerfScale == 1000

\* m[k] of a Go map: the zero value when k is absent.
MapGet(m, k) == IF k \in DOMAIN m THEN m[k] ELSE 0

\* m[k] = v
MapSet(m, k, v) == [j \in DOMAIN m \cup {k} |-> IF j = k THEN v ELSE m[j]]

\* analyzeWorkload, for a batch of L jobs of which `high` have a priority
\* above HighPriority, and N workers.
analyzeWorkload(L, high, N) ==
    IF L = 0 THEN "empty"
    ELSE IF high > L \div 2 THEN "priority_based"
    ELSE IF L < N * 2 THEN "round_robin"
    ELSE IF L > N * 10 THEN "chunked"
    ELSE "work_stealing"

\* The loop `for strategy, perf := range strategyPerformance { if perf >
\* bestPerf {...} }`: the map is ranged over in any order, so bestStrategy ends
\* as any key of the greatest performance, or as "" if none is positive.
BestStrategies(m) ==
    LET top == {k \in DOMAIN m : m[k] > 0 /\ \A j \in DOMAIN m : m[j] <= m[k]}
    IN  IF top = {} THEN {""} ELSE top

\* time.Since(lastSwitch) >= 5*time.Second; the zero time lies far back.
GuardPassed(a) == a.lastSwitch = 0 \/ a.clock - a.lastSwitch >= SwitchGuard

\* shouldSwitchStrategy(currentStrategy), its loop ending with bestStrategy = best.
shouldSwitchStrategy(a, currentStrategy, best) ==
    LET currentPerf == MapGet(a.strategyPerformance, currentStrategy)
        bestPerf == MapGet(a.strategyPerformance, best)
    IN  /\ GuardPassed(a)
        /\ currentPerf # 0
        /\ best # currentStrategy
        /\ 100 * (bestPerf - currentPerf) > a.switchThreshold * currentPerf

\* findBestStrategy, its loop ending with bestStrategy = best:
\* as.strategies[bestStrategy], nil for "" and for a name that is not
\* registered.
findBestStrategy(a, best) ==
    IF best # "" /\ best \in DOMAIN a.strategies THEN a.strategies[best] ELSE "nil"

\* updateMetrics(strategyName, duration, jobCount), returning at time t.
updateMetrics(a, strategyName, duration, jobCount, t) ==
    LET m == a.strategyPerformance
        performance == (PerfScale * jobCount) \div duration
        smoothed == IF strategyName \in DOMAIN m
                    THEN (AlphaPct * performance + (100 - AlphaPct) * m[strategyName]) \div 100
                    ELSE performance
    IN  [a EXCEPT !.strategyPerformance = MapSet(m, strategyName, smoothed),
                  !.lastSwitch = t]

\* The batches handed to Execute: one job, or more than ten times the
\* workers, none of high priority.
BatchSizes == {1, 10 * AdaptiveWorkers + 1}

\* What the adaptive actions leave alone.
AdaptiveOnly ==
    UNCHANGED <<poolVars, chanVars, ctxVars, runnerVars, workers, panicked, invoked,
                rrVars, deques, prioVars, owner, thieves, delivered, popped, getter,
                caller>>

\* Execute up to shouldSwitchStrategy's return: analyzeWorkload, then, under
\* as.mu.RLock, the strategy registered for the workload type (round-robin if
\* none) and shouldSwitchStrategy under metrics.mu.RLock.
AdaptiveSelect(c) ==
    /\ adaptive.calls[c].pc = "idle"
    /\ adaptive.executes < MaxExecutes
    /\ \E L \in BatchSizes, best \in BestStrategies(adaptive.strategyPerformance) :
          LET workloadType == analyzeWorkload(L, 0, AdaptiveWorkers)
              strategy == IF workloadType \in DOMAIN adaptive.strategies
                          THEN adaptive.strategies[workloadType]
                          ELSE adaptive.strategies["round_robin"]
          IN  adaptive' =
                  [adaptive EXCEPT
                      !.executes = @ + 1,
                      !.calls[c] =
                          [NoExecute EXCEPT
                              !.pc = IF shouldSwitchStrategy(adaptive, workloadType, best)
                                     THEN "best" ELSE "start",
                              !.workloadType = workloadType,
                              !.strategy = strategy,
                              !.jobCount = L]]
    /\ AdaptiveOnly

\* selectStrategy after shouldSwitchStrategy returned true: findBestStrategy
\* under metrics.mu.RLock taken anew, its result used unless nil.
AdaptiveFindBest(c) ==
    /\ adaptive.calls[c].pc = "best"
    /\ \E best \in BestStrategies(adaptive.strategyPerformance) :
          adaptive' =
              [adaptive EXCEPT
                  !.calls[c].pc = "start",
                  !.calls[c].strategy =
                      IF findBestStrategy(adaptive, best) # "nil"
                      THEN findBestStrategy(adaptive, best) ELSE @]
    /\ AdaptiveOnly

\* startTime := time.Now(); selectedStrategy.Execute(...) is entered.
AdaptiveStart(c) ==
    /\ adaptive.calls[c].pc = "start"
    /\ adaptive' = [adaptive EXCEPT !.calls[c].pc = "run",
                                    !.calls[c].startTime = adaptive.clock]
    /\ AdaptiveOnly

\* The selected strategy's Execute returns, after 1..MaxDuration seconds;
\* duration := time.Since(startTime).
AdaptiveReturn(c) ==
    /\ adaptive.calls[c].pc = "run"
    /\ adaptive.clock - adaptive.calls[c].startTime \in 1..MaxDuration
    /\ adaptive' = [adaptive EXCEPT
                       !.calls[c].pc = "record",
                       !.calls[c].duration = adaptive.clock - adaptive.calls[c].startTime]
    /\ AdaptiveOnly

\* as.updateMetrics(selectedStrategy.Name(), duration, len(jobs)) under
\* metrics.mu.Lock; Execute returns.
AdaptiveRecord(c) ==
    /\ adaptive.calls[c].pc = "record"
    /\ adaptive' = [updateMetrics(adaptive, adaptive.calls[c].strategy,
                                  adaptive.calls[c].duration, adaptive.calls[c].jobCount,
                                  adaptive.clock)
                       EXCEPT !.calls[c] = NoExecute]
    /\ AdaptiveOnly

\* A second passes; no strategy takes longer than MaxDuration over a batch.
AdaptiveIdle ==
    /\ adaptive.clock < MaxAdaptiveClock
    /\ \A c \in DOMAIN adaptive.calls :
          adaptive.calls[c].pc = "run" =>
              adaptive.clock - adaptive.calls[c].startTime < MaxDuration
    /\ adaptive' = [adaptive EXCEPT !.clock = @ + 1]
    /\ AdaptiveOnly

\* The RegisterStrategy calls of this program: the caller's own strategy in
\* the place of round-robin, the chunked strategy under its Name() as well.
Registrations == {<<"round_robin", CustomStrategy>>, <<ChunkedStrategy, ChunkedStrategy>>}

\* RegisterStrategy(name, strategy), under as.mu.Lock: no selectStrategy is
\* holding as.mu.RLock.
RegisterStrategy ==
    /\ \A c \in DOMAIN adaptive.calls : adaptive.calls[c].pc # "best"
    /\ \E r \in Registrations :
          /\ ~(r[1] \in DOMAIN adaptive.strategies /\ adaptive.strategies[r[1]] = r[2])
          /\ adaptive' = [adaptive EXCEPT !.strategies = MapSet(@, r[1], r[2])]
    /\ AdaptiveOnly

\* SetSwitchThreshold(threshold), under metrics.mu.Lock.
SetSwitchThreshold ==
    /\ \E threshold \in {SwitchThresholdPct, OtherThresholdPct} :
          /\ threshold # adaptive.switchThreshold
          /\ adaptive' = [adaptive EXCEPT !.switchThreshold = threshold]
    /\ AdaptiveOnly

InitAdaptive == InitPool(Config(AdaptiveWorkers, 1, RoundRobin, 0))

NextAdaptive ==
    \/ \E c \in 1..MaxAdaptiveCallers :
          \/ AdaptiveSelect(c)
          \/ AdaptiveFindBest(c)
          \/ AdaptiveStart(c)
          \/ AdaptiveReturn(c)
          \/ AdaptiveRecord(c)
    \/ AdaptiveIdle
    \/ RegisterStrategy
    \/ SetSwitchThreshold

SpecAdaptive == InitAdaptive /\ [][NextAdaptive]_vars

\* The strategies registered.
RegisteredStrategies(a) == {a.strategies[k] : k \in DOMAIN a.strategies}

\* The throughput the Execute calls that ran strategy s have recorded for it.
RecordedFor(a, s) == MapGet(a.strategyPerformance, s)

\* The throughput recorded for s lies more than switchThreshold below the
\* best one recorded for a registered strategy.
Lagging(a, s) ==
    /\ RecordedFor(a, s) > 0
    /\ \E o \in RegisteredStrategies(a) :
          100 * (RecordedFor(a, o) - RecordedFor(a, s)) > a.switchThreshold * RecordedFor(a, s)

\* C40, switching: an Execute outside the switch guard whose workload-selected
\* strategy has recorded throughput more than switchThreshold below the best
\* recorded one goes on to take the best-performing registered strategy.
SwitchesToBest ==
    \A c \in 1..MaxAdaptiveCallers :
        /\ ( /\ adaptive.calls[c].pc = "idle"
             /\ adaptive'.calls[c].pc # "idle"
             /\ GuardPassed(adaptive)
             /\ Lagging(adaptive, adaptive'.calls[c].strategy) )
           => adaptive'.calls[c].pc = "best"
        /\ ( adaptive.calls[c].pc = "best" /\ adaptive'.calls[c].pc = "start" )
           => \A o \in RegisteredStrategies(adaptive) :
                 RecordedFor(adaptive, o) <= RecordedFor(adaptive, adaptive'.calls[c].strategy)

\* C40, bookkeeping: the performance an Execute records is the performance
\* later selections look up for the strategy it ran.
RecordedIsLookedUp ==
    \A c \in 1..MaxAdaptiveCallers :
        ( adaptive.calls[c].pc = "record" /\ adaptive'.calls[c].pc = "idle" )
        => \A k \in DOMAIN adaptive'.strategies :
              adaptive'.strategies[k] = adaptive.calls[c].strategy
                  => MapGet(adaptive'.strategyPerformance, k)
                         = RecordedFor(adaptive', adaptive.calls[c].strategy)

\* C40: in the adaptive strategy, once earlier Execute calls have recorded
\* throughput for the strategies they ran, a later Execute outside the
\* 5-second switch guard whose workload-selected strategy has recorded
\* throughput more than switchThreshold (20%) below the best recorded one runs
\* the batch with the best-performing registered strategy, and the
\* performance recorded by an Execute is the performance that later
\* selections look up for that same strategy.
AdaptiveSwitching == [][SwitchesToBest /\ RecordedIsLookedUp]_vars

====
